---- MODULE Spec2Model ----
(***************************************************************************)
(* Model of the readability engine of boom_tekst_omzetter                  *)
(* (src/text_utils.py): tokenizer, sentence splitter, syllable counter,    *)
(* the AVI (technical reading) and REF (comprehension) scorers and the     *)
(* suggestion engine.                                                      *)
(*                                                                         *)
(* A text is a sequence of one-character strings.  A Python float is an    *)
(* exact rational [num, den] in lowest terms with den > 0: the decimal     *)
(* constants of the source are the rationals they denote, so arithmetic    *)
(* and comparisons are those of the real numbers, without binary rounding. *)
(***************************************************************************)
EXTENDS Integers, Sequences, FiniteSets, TLC

\* ------------------------------------------------------------------ bounds
\* Most fragments a text is typed from.
MaxChunks == 3
\* Longest word handed to the syllable counter on its own.
MaxWordLen == 4
\* Grid steps per unit for scores classified on their own.
ScoreRes == 100
\* Most analyses logged in a series of repeated analyses.
MaxCalls == 3
\* Session threads sharing the one analyzer.
NumThreads == 2
\* Most fragments a text handed to split_sentences on its own is made of.
MaxFragments == 4

\* --------------------------------------------------------- Python values
None == [kind |-> "None"]
NotRun == [kind |-> "NotRun"]

Abs(x) == IF x < 0 THEN -x ELSE x

RECURSIVE GCD(_, _)
GCD(a, b) == IF b = 0 THEN a ELSE GCD(b, a % b)

LCM(a, b) == (a \div GCD(a, b)) * b

\* The rational n/d (d # 0) in lowest terms with a positive denominator.
Rat(n, d) ==
    LET g == GCD(Abs(n), Abs(d))
        s == IF d < 0 THEN -1 ELSE 1
    IN  [num |-> s * (n \div g), den |-> s * (d \div g)]

RInt(n) == [num |-> n, den |-> 1]

RAdd(a, b) ==
    LET m == LCM(a.den, b.den)
    IN  Rat(a.num * (m \div a.den) + b.num * (m \div b.den), m)

RNeg(a) == [num |-> -a.num, den |-> a.den]

RSub(a, b) == RAdd(a, RNeg(b))

\* Cross-cancelled, so that the products stay small.
RMul(a, b) ==
    LET g1 == GCD(Abs(a.num), b.den)
        g2 == GCD(Abs(b.num), a.den)
    IN  Rat((a.num \div g1) * (b.num \div g2), (a.den \div g2) * (b.den \div g1))

RLt(a, b) ==
    LET m == LCM(a.den, b.den)
    IN  a.num * (m \div a.den) < b.num * (m \div b.den)

RLe(a, b) == ~RLt(b, a)

RGt(a, b) == RLt(b, a)

\* Python truthiness of an optional number: None and zero are falsy.
Falsy(x) == x = None \/ x = RInt(0)

\* ------------------------------------------------------------ characters
UpperLetters ==
    <<"A", "B", "C", "D", "E", "F", "G", "H", "I", "J", "K", "L", "M",
      "N", "O", "P", "Q", "R", "S", "T", "U", "V", "W", "X", "Y", "Z">>

LowerLetters ==
    <<"a", "b", "c", "d", "e", "f", "g", "h", "i", "j", "k", "l", "m",
      "n", "o", "p", "q", "r", "s", "t", "u", "v", "w", "x", "y", "z">>

\* The vowel characters of tel_lettergrepen.
klinkers ==
    {"a", "e", "i", "o", "u", "á", "é", "í", "ó", "ú", "à", "è", "ì", "ò",
     "ù", "ä", "ë", "ï", "ö", "ü", "â", "ê", "î", "ô", "û", "y"}

Digits == {"0", "1", "2", "3", "4", "5", "6", "7", "8", "9"}

\* The characters the regular expression class \w matches.
WordChars ==
    {UpperLetters[i] : i \in 1..26} \cup {LowerLetters[i] : i \in 1..26}
        \cup klinkers \cup Digits \cup {"_"}

\* The characters str.strip() removes.
Whitespace == {" ", "\t", "\n"}

\* The characters of the class [.!?].
SentenceEnd == {".", "!", "?"}

\* str.lower() on one character.
LowerChar(c) ==
    IF \E i \in 1..26 : UpperLetters[i] = c
    THEN LowerLetters[CHOOSE i \in 1..26 : UpperLetters[i] = c]
    ELSE c

\* str.lower()
Lower(s) == [i \in 1..Len(s) |-> LowerChar(s[i])]

RECURSIVE LStrip(_)
LStrip(s) ==
    IF s # <<>> /\ Head(s) \in Whitespace THEN LStrip(Tail(s)) ELSE s

RECURSIVE RStrip(_)
RStrip(s) ==
    IF s # <<>> /\ s[Len(s)] \in Whitespace
    THEN RStrip(SubSeq(s, 1, Len(s) - 1))
    ELSE s

\* str.strip()
Strip(s) == RStrip(LStrip(s))

\* The inner loop replaced by a single step: every vowel counts.
SkipKlinkers_step(woord, i) == i + 1

\* ----------------------------------------------------------- hulpfuncties
\* The inner while loop of tel_lettergrepen: the index after the vowel run
\* that starts at i.
RECURSIVE SkipKlinkers(_, _)
SkipKlinkers(woord, i) ==
    IF i <= Len(woord) /\ woord[i] \in klinkers
    THEN SkipKlinkers(woord, i + 1)
    ELSE i

\* The outer while loop of tel_lettergrepen.
RECURSIVE TelLoop(_, _, _)
TelLoop(woord, i, lettergrepen) ==
    IF i > Len(woord) THEN lettergrepen
    ELSE IF woord[i] \in klinkers
         THEN TelLoop(woord, SkipKlinkers(woord, i), lettergrepen + 1)
         ELSE TelLoop(woord, i + 1, lettergrepen)

Max(a, b) == IF a >= b THEN a ELSE b

tel_lettergrepen(woord0) ==
    LET woord == Strip(Lower(woord0))
    IN  IF woord = <<>> THEN 0 ELSE Max(1, TelLoop(woord, 1, 0))

\* The first index j >= i of s whose character is in set (want = TRUE) or
\* outside it (want = FALSE); Len(s) + 1 when there is none.
Scan(s, i, set, want) ==
    CHOOSE j \in i..(Len(s) + 1) :
        /\ j = Len(s) + 1 \/ ((s[j] \in set) = want)
        /\ \A k \in i..(j - 1) : (s[k] \in set) # want

\* re.findall(r'\b\w+\b', s) from index i on: the maximal runs of word
\* characters, in order.
RECURSIVE FindWords(_, _)
FindWords(s, i) ==
    LET b == Scan(s, i, WordChars, TRUE)
        e == Scan(s, b, WordChars, FALSE)
    IN  IF b > Len(s) THEN <<>>
        ELSE <<SubSeq(s, b, e - 1)>> \o FindWords(s, e)

tokenize(text) == FindWords(Lower(text), 1)

\* re.split(r'[.!?]+', s) from index i on: the pieces between the runs of
\* sentence enders, an empty first or last piece included.
RECURSIVE ReSplit(_, _)
ReSplit(s, i) ==
    LET e == Scan(s, i, SentenceEnd, TRUE)
        n == Scan(s, e, SentenceEnd, FALSE)
    IN  IF e > Len(s) THEN <<SubSeq(s, i, Len(s))>>
        ELSE <<SubSeq(s, i, e - 1)>> \o ReSplit(s, n)

\* The filter keeping the pieces of five characters as well.
RECURSIVE FilterSentences_incl(_)
FilterSentences_incl(pieces) ==
    IF pieces = <<>> THEN <<>>
    ELSE LET s == Strip(Head(pieces))
         IN  IF s # <<>> /\ Len(s) >= 5
             THEN <<s>> \o FilterSentences_incl(Tail(pieces))
             ELSE FilterSentences_incl(Tail(pieces))

RECURSIVE FilterSentences(_)
FilterSentences(pieces) ==
    IF pieces = <<>> THEN <<>>
    ELSE LET s == Strip(Head(pieces))
         IN  IF s # <<>> /\ Len(s) > 5
             THEN <<s>> \o FilterSentences(Tail(pieces))
             ELSE FilterSentences(Tail(pieces))

split_sentences(text) == FilterSentences(ReSplit(text, 1))

bereken_aantal_proposities(doelwoorden) ==
    IF doelwoorden < 60 THEN 3
    ELSE IF doelwoorden < 90 THEN 5
    ELSE IF doelwoorden < 120 THEN 6
    ELSE IF doelwoorden < 160 THEN 8
    ELSE IF doelwoorden < 200 THEN 10
    ELSE 12

\* ------------------------------------------------------------- constanten
\* A Python str value, where None may stand in its place.
Str(s) == [kind |-> "str", s |-> s]

\* Python truthiness of an optional str.
FalsyStr(x) == x = None \/ x = Str("")

\* BILT = 43.21 - 0.23 x %frequente_woorden + 8.63 x gem_woordlengte
BILT_INTERCEPT == Rat(4321, 100)

BILT_COEF_FREQ == Rat(-23, 100)

BILT_COEF_WLEN == Rat(863, 100)

\* The table with the upper bound of AVI-E3 mistyped as 59.0.
AVI_LEVELS_gap ==
    <<
      [niveau |-> "AVI-M3", bilt_min |-> None, bilt_max |-> Rat(560, 10),
       bilt_typical |-> RInt(51), pct_freq |-> RInt(91), gem_wlen |-> Rat(33, 10),
       max_lettergrepen |-> RInt(1), max_zinslengte |-> RInt(6)],
      [niveau |-> "AVI-E3", bilt_min |-> Rat(560, 10), bilt_max |-> Rat(590, 10),
       bilt_typical |-> RInt(58), pct_freq |-> RInt(80), gem_wlen |-> Rat(39, 10),
       max_lettergrepen |-> RInt(2), max_zinslengte |-> RInt(7)],
      [niveau |-> "AVI-M4", bilt_min |-> Rat(600, 10), bilt_max |-> Rat(620, 10),
       bilt_typical |-> RInt(61), pct_freq |-> RInt(79), gem_wlen |-> Rat(41, 10),
       max_lettergrepen |-> RInt(3), max_zinslengte |-> RInt(8)],
      [niveau |-> "AVI-E4", bilt_min |-> Rat(620, 10), bilt_max |-> Rat(645, 10),
       bilt_typical |-> RInt(63), pct_freq |-> RInt(76), gem_wlen |-> Rat(44, 10),
       max_lettergrepen |-> RInt(4), max_zinslengte |-> RInt(9)],
      [niveau |-> "AVI-M5", bilt_min |-> Rat(645, 10), bilt_max |-> Rat(665, 10),
       bilt_typical |-> RInt(65), pct_freq |-> RInt(75), gem_wlen |-> Rat(45, 10),
       max_lettergrepen |-> None, max_zinslengte |-> None],
      [niveau |-> "AVI-E5", bilt_min |-> Rat(665, 10), bilt_max |-> Rat(680, 10),
       bilt_typical |-> RInt(67), pct_freq |-> RInt(75), gem_wlen |-> Rat(48, 10),
       max_lettergrepen |-> None, max_zinslengte |-> None],
      [niveau |-> "AVI-M6", bilt_min |-> Rat(680, 10), bilt_max |-> Rat(710, 10),
       bilt_typical |-> RInt(69), pct_freq |-> RInt(71), gem_wlen |-> Rat(49, 10),
       max_lettergrepen |-> None, max_zinslengte |-> None],
      [niveau |-> "AVI-E6", bilt_min |-> Rat(710, 10), bilt_max |-> Rat(730, 10),
       bilt_typical |-> RInt(72), pct_freq |-> RInt(63), gem_wlen |-> Rat(50, 10),
       max_lettergrepen |-> None, max_zinslengte |-> None],
      [niveau |-> "AVI-M7", bilt_min |-> Rat(730, 10), bilt_max |-> Rat(750, 10),
       bilt_typical |-> RInt(74), pct_freq |-> RInt(60), gem_wlen |-> Rat(51, 10),
       max_lettergrepen |-> None, max_zinslengte |-> None],
      [niveau |-> "AVI-E7", bilt_min |-> Rat(750, 10), bilt_max |-> Rat(770, 10),
       bilt_typical |-> RInt(76), pct_freq |-> RInt(58), gem_wlen |-> Rat(52, 10),
       max_lettergrepen |-> None, max_zinslengte |-> None],
      [niveau |-> "AVI-Plus", bilt_min |-> Rat(770, 10), bilt_max |-> None,
       bilt_typical |-> RInt(79), pct_freq |-> RInt(55), gem_wlen |-> Rat(53, 10),
       max_lettergrepen |-> None, max_zinslengte |-> None]
    >>

AVI_LEVELS ==
    <<
      [niveau |-> "AVI-M3", bilt_min |-> None, bilt_max |-> Rat(560, 10),
       bilt_typical |-> RInt(51), pct_freq |-> RInt(91), gem_wlen |-> Rat(33, 10),
       max_lettergrepen |-> RInt(1), max_zinslengte |-> RInt(6)],
      [niveau |-> "AVI-E3", bilt_min |-> Rat(560, 10), bilt_max |-> Rat(600, 10),
       bilt_typical |-> RInt(58), pct_freq |-> RInt(80), gem_wlen |-> Rat(39, 10),
       max_lettergrepen |-> RInt(2), max_zinslengte |-> RInt(7)],
      [niveau |-> "AVI-M4", bilt_min |-> Rat(600, 10), bilt_max |-> Rat(620, 10),
       bilt_typical |-> RInt(61), pct_freq |-> RInt(79), gem_wlen |-> Rat(41, 10),
       max_lettergrepen |-> RInt(3), max_zinslengte |-> RInt(8)],
      [niveau |-> "AVI-E4", bilt_min |-> Rat(620, 10), bilt_max |-> Rat(645, 10),
       bilt_typical |-> RInt(63), pct_freq |-> RInt(76), gem_wlen |-> Rat(44, 10),
       max_lettergrepen |-> RInt(4), max_zinslengte |-> RInt(9)],
      [niveau |-> "AVI-M5", bilt_min |-> Rat(645, 10), bilt_max |-> Rat(665, 10),
       bilt_typical |-> RInt(65), pct_freq |-> RInt(75), gem_wlen |-> Rat(45, 10),
       max_lettergrepen |-> None, max_zinslengte |-> None],
      [niveau |-> "AVI-E5", bilt_min |-> Rat(665, 10), bilt_max |-> Rat(680, 10),
       bilt_typical |-> RInt(67), pct_freq |-> RInt(75), gem_wlen |-> Rat(48, 10),
       max_lettergrepen |-> None, max_zinslengte |-> None],
      [niveau |-> "AVI-M6", bilt_min |-> Rat(680, 10), bilt_max |-> Rat(710, 10),
       bilt_typical |-> RInt(69), pct_freq |-> RInt(71), gem_wlen |-> Rat(49, 10),
       max_lettergrepen |-> None, max_zinslengte |-> None],
      [niveau |-> "AVI-E6", bilt_min |-> Rat(710, 10), bilt_max |-> Rat(730, 10),
       bilt_typical |-> RInt(72), pct_freq |-> RInt(63), gem_wlen |-> Rat(50, 10),
       max_lettergrepen |-> None, max_zinslengte |-> None],
      [niveau |-> "AVI-M7", bilt_min |-> Rat(730, 10), bilt_max |-> Rat(750, 10),
       bilt_typical |-> RInt(74), pct_freq |-> RInt(60), gem_wlen |-> Rat(51, 10),
       max_lettergrepen |-> None, max_zinslengte |-> None],
      [niveau |-> "AVI-E7", bilt_min |-> Rat(750, 10), bilt_max |-> Rat(770, 10),
       bilt_typical |-> RInt(76), pct_freq |-> RInt(58), gem_wlen |-> Rat(52, 10),
       max_lettergrepen |-> None, max_zinslengte |-> None],
      [niveau |-> "AVI-Plus", bilt_min |-> Rat(770, 10), bilt_max |-> None,
       bilt_typical |-> RInt(79), pct_freq |-> RInt(55), gem_wlen |-> Rat(53, 10),
       max_lettergrepen |-> None, max_zinslengte |-> None]
    >>

\* DOELWOORDEN: per band, the target word counts for 1, 2 and 3 minutes.
DOELWOORDEN ==
    <<[niveau |-> "AVI-M3", minuten |-> <<45, 80, 107>>],
      [niveau |-> "AVI-E3", minuten |-> <<56, 101, 135>>],
      [niveau |-> "AVI-M4", minuten |-> <<65, 117, 156>>],
      [niveau |-> "AVI-E4", minuten |-> <<68, 123, 164>>],
      [niveau |-> "AVI-M5", minuten |-> <<83, 152, 206>>],
      [niveau |-> "AVI-E5", minuten |-> <<89, 164, 224>>],
      [niveau |-> "AVI-M6", minuten |-> <<96, 179, 247>>],
      [niveau |-> "AVI-E6", minuten |-> <<110, 205, 282>>],
      [niveau |-> "AVI-M7", minuten |-> <<116, 218, 302>>],
      [niveau |-> "AVI-E7", minuten |-> <<117, 220, 306>>],
      [niveau |-> "AVI-Plus", minuten |-> <<118, 224, 306>>]>>

\* DOELWOORDEN.get(niveau, {}).get(minuten, 100)
DOELWOORDEN_get(niveau, minuten) ==
    IF \E i \in 1..Len(DOELWOORDEN) :
          DOELWOORDEN[i].niveau = niveau /\ minuten \in 1..Len(DOELWOORDEN[i].minuten)
    THEN (CHOOSE d \in {DOELWOORDEN[i] : i \in 1..Len(DOELWOORDEN)} :
              d.niveau = niveau).minuten[minuten]
    ELSE 100

AVI_KENMERKEN ==
    <<
      [niveau |-> "AVI-M3",
       woordtypen |-> Str("Alleen éénlettergrepige woorden (mkm-structuur: mak, pen, vis)"),
       max_lettergrepen |-> RInt(1), max_zinslengte |-> RInt(6),
       nieuw |-> Str("Enkelvoudige mkm-woorden"),
       verboden |-> Str("Tweelettergrepige woorden, medeklinkerclusters")],
      [niveau |-> "AVI-E3",
       woordtypen |-> Str("Éénlettergrepig plus sch-, -ng, -nk, eenvoudige tweelettergrepig"),
       max_lettergrepen |-> RInt(2), max_zinslengte |-> RInt(7),
       nieuw |-> Str("sch-, -ng, -nk clusters, eenvoudige tweelettergrepige"),
       verboden |-> Str("Voorvoegsels be-, ge-, ver-, ont-")],
      [niveau |-> "AVI-M4",
       woordtypen |-> Str("Voorvoegsels be-, ge-, verkleinwoorden -je, open/gesloten lettergrepen"),
       max_lettergrepen |-> RInt(3), max_zinslengte |-> RInt(8),
       nieuw |-> Str("be-, ge-, verkleinwoorden, open lettergrepen"),
       verboden |-> Str("Voorvoegsels ver-, ont-, achtervoegsels -heid, -lijk")],
      [niveau |-> "AVI-E4",
       woordtypen |-> Str("Voorvoegsels ver-, ont-, achtervoegsels -lijk, -ig, samenstellingen"),
       max_lettergrepen |-> RInt(4), max_zinslengte |-> RInt(9),
       nieuw |-> Str("ver-, ont-, -lijk, -ig, samenstellingen"),
       verboden |-> Str("Complexe leenwoorden, abstracte begrippen")],
      [niveau |-> "AVI-M5",
       woordtypen |-> Str("Woorden met x, -tie, c als /k/, uitbreiding woordenschat"),
       max_lettergrepen |-> None, max_zinslengte |-> None,
       nieuw |-> Str("x, -tie, c als /k/"),
       verboden |-> Str("Complexe leenwoorden met vreemde spelling")],
      [niveau |-> "AVI-E5",
       woordtypen |-> Str("Leenwoorden met eau, é, è, ch als /sj/"),
       max_lettergrepen |-> None, max_zinslengte |-> None,
       nieuw |-> Str("eau, é, è, ch als /sj/"),
       verboden |-> None],
      [niveau |-> "AVI-M6",
       woordtypen |-> Str("Woorden met trema, minder frequente leenwoorden"),
       max_lettergrepen |-> None, max_zinslengte |-> None,
       nieuw |-> Str("Trema (ë, ï), uitgebreidere leenwoorden"),
       verboden |-> None],
      [niveau |-> "AVI-E6",
       woordtypen |-> Str("Alle woordtypen, alleen BILT bepalend"),
       max_lettergrepen |-> None, max_zinslengte |-> None,
       nieuw |-> Str("Alle structuren toegestaan"),
       verboden |-> None],
      [niveau |-> "AVI-M7",
       woordtypen |-> Str("Alle woordtypen, alleen BILT bepalend"),
       max_lettergrepen |-> None, max_zinslengte |-> None,
       nieuw |-> Str("Alle structuren toegestaan"),
       verboden |-> None],
      [niveau |-> "AVI-E7",
       woordtypen |-> Str("Alle woordtypen, alleen BILT bepalend"),
       max_lettergrepen |-> None, max_zinslengte |-> None,
       nieuw |-> Str("Alle structuren toegestaan"),
       verboden |-> None],
      [niveau |-> "AVI-Plus",
       woordtypen |-> Str("Alle woordtypen, alleen BILT bepalend"),
       max_lettergrepen |-> None, max_zinslengte |-> None,
       nieuw |-> Str("Alle structuren toegestaan"),
       verboden |-> None]
    >>

\* AVI_KENMERKEN.get(niveau, {}): the entry, or a dict whose every get()
\* returns None.
AVI_KENMERKEN_get(niveau) ==
    IF \E i \in 1..Len(AVI_KENMERKEN) : AVI_KENMERKEN[i].niveau = niveau
    THEN AVI_KENMERKEN[CHOOSE i \in 1..Len(AVI_KENMERKEN) :
                           AVI_KENMERKEN[i].niveau = niveau]
    ELSE [niveau |-> niveau, woordtypen |-> None, max_lettergrepen |-> None,
          max_zinslengte |-> None, nieuw |-> None, verboden |-> None]

REF_INTERCEPT == Rat(-23972, 10000)

REF_COEF_LONG_SENT == Rat(208, 10000)

REF_COEF_MARKER_DIV == Rat(3423, 10000)

REF_COEF_WL == Rat(5405, 10000)

REF_CUTOFF_1F_2F == Rat(125, 100)

REF_CUTOFF_2F_3F == Rat(235, 100)

REF_NIVEAU_INFO ==
    <<
      [niveau |-> "1F", wl_typical |-> Rat(473, 100), zl_typical |-> Rat(109, 10),
       long_sent_typical |-> RInt(7)],
      [niveau |-> "2F", wl_typical |-> Rat(491, 100), zl_typical |-> Rat(144, 10),
       long_sent_typical |-> RInt(15)],
      [niveau |-> "3F", wl_typical |-> Rat(527, 100), zl_typical |-> Rat(174, 10),
       long_sent_typical |-> RInt(31)]
    >>

DISCOURSE_MARKERS ==
    <<
      [mtype |-> "additief",
       markers |-> {
         <<"e", "n">>, <<"o", "o", "k">>,
         <<"b", "o", "v", "e", "n", "d", "i", "e", "n">>,
         <<"d", "a", "a", "r", "n", "a", "a", "s", "t">>,
         <<"v", "e", "r", "d", "e", "r">>, <<"t", "e", "v", "e", "n", "s">>,
         <<"e", "v", "e", "n", "e", "e", "n", "s">>,
         <<"d", "a", "a", "r", "b", "i", "j">>}],
      [mtype |-> "temporeel",
       markers |-> {
         <<"t", "o", "e", "n">>, <<"d", "a", "a", "r", "n", "a">>,
         <<"v", "e", "r", "v", "o", "l", "g", "e", "n", "s">>,
         <<"e", "e", "r", "s", "t">>, <<"d", "a", "n">>,
         <<"l", "a", "t", "e", "r">>, <<"e", "e", "r", "d", "e", "r">>,
         <<"v", "o", "o", "r", "d", "a", "t">>, <<"n", "a", "d", "a", "t">>,
         <<"t", "e", "r", "w", "i", "j", "l">>, <<"z", "o", "d", "r", "a">>,
         <<"i", "n", "m", "i", "d", "d", "e", "l", "s">>,
         <<"i", "n", "t", "u", "s", "s", "e", "n">>,
         <<"u", "i", "t", "e", "i", "n", "d", "e", "l", "i", "j", "k">>}],
      [mtype |-> "causaal",
       markers |-> {
         <<"o", "m", "d", "a", "t">>, <<"d", "o", "o", "r", "d", "a", "t">>,
         <<"w", "a", "n", "t">>, <<"d", "a", "a", "r", "d", "o", "o", "r">>,
         <<"d", "a", "a", "r", "o", "m">>, <<"d", "u", "s">>,
         <<"h", "i", "e", "r", "d", "o", "o", "r">>,
         <<"w", "a", "a", "r", "d", "o", "o", "r">>,
         <<"a", "a", "n", "g", "e", "z", "i", "e", "n">>,
         <<"i", "m", "m", "e", "r", "s">>,
         <<"n", "a", "m", "e", "l", "i", "j", "k">>}],
      [mtype |-> "contrastief",
       markers |-> {
         <<"m", "a", "a", "r">>, <<"e", "c", "h", "t", "e", "r">>,
         <<"t", "o", "c", "h">>, <<"h", "o", "e", "w", "e", "l">>,
         <<"o", "n", "d", "a", "n", "k", "s">>,
         <<"t", "e", "r", "w", "i", "j", "l">>,
         <<"d", "a", "a", "r", "e", "n", "t", "e", "g", "e", "n">>,
         <<"i", "n", "t", "e", "g", "e", "n", "d", "e", "e", "l">>,
         <<"n", "i", "e", "t", "t", "e", "m", "i", "n">>,
         <<"d", "e", "s", "o", "n", "d", "a", "n", "k", "s">>,
         <<"w", "e", "l", "i", "s", "w", "a", "a", "r">>}],
      [mtype |-> "conclusief",
       markers |-> {
         <<"k", "o", "r", "t", "o", "m">>,
         <<"s", "a", "m", "e", "n", "g", "e", "v", "a", "t">>,
         <<"c", "o", "n", "c", "l", "u", "d", "e", "r", "e", "n", "d">>,
         <<"s", "a", "m", "e", "n", "v", "a", "t", "t", "e", "n", "d">>,
         <<"a", "l", "d", "u", "s">>,
         <<"d", "e", "r", "h", "a", "l", "v", "e">>,
         <<"t", "e", "n", "s", "l", "o", "t", "t", "e">>,
         <<"t", "o", "t", " ", "s", "l", "o", "t">>}]
    >>
REF_NIVEAUS == {REF_NIVEAU_INFO[i].niveau : i \in 1..Len(REF_NIVEAU_INFO)}

\* REF_NIVEAU_INFO[niveau], for a key of the dict.
REF_NIVEAU_INFO_get(niveau) ==
    REF_NIVEAU_INFO[CHOOSE i \in 1..Len(REF_NIVEAU_INFO) :
                        REF_NIVEAU_INFO[i].niveau = niveau]

\* niveau_order of get_ref_suggesties.
niveau_order(niveau) ==
    CASE niveau = "1F" -> 1
      [] niveau = "2F" -> 2
      [] niveau = "3F" -> 3

\* --------------------------------------------------------------- analyzer
\* One cell of the first column of the word list file: a word, or an empty
\* cell (NaN).
Cell(w) == [kind |-> "cell", w |-> w]
NaN == [kind |-> "nan"]

\* TextAnalyzer._laad_woordenlijst: the lowercased non-empty cells of the
\* first column, or the empty set when the file cannot be read.
_laad_woordenlijst(file) ==
    IF file.kind = "unreadable" THEN {}
    ELSE {Lower(file.column[i].w) :
              i \in {j \in 1..Len(file.column) : file.column[j] # NaN}}

RECURSIVE SumLen(_)
SumLen(tokens) ==
    IF tokens = <<>> THEN 0 ELSE Len(Head(tokens)) + SumLen(Tail(tokens))

RECURSIVE SumSeq(_)
SumSeq(xs) == IF xs = <<>> THEN 0 ELSE Head(xs) + SumSeq(Tail(xs))

\* sum(1 for t in tokens if t in self.woordenlijst)
freq_count(tokens, woordenlijst) ==
    Cardinality({i \in 1..Len(tokens) : tokens[i] \in woordenlijst})

\* The length guard of analyse_avi with the bound taken inclusively.
avi_te_kort_incl(tokens) == tokens = <<>> \/ Len(tokens) <= 10

\* The guard of analyse_avi: too few tokens to analyse.
avi_te_kort(tokens) == tokens = <<>> \/ Len(tokens) < 10

\* The guard of analyse_ref.
ref_te_kort(tokens) == tokens = <<>> \/ Len(tokens) < 20

\* [len(tokenize(s)) for s in sentences], or the whole text as one sentence.
sentence_lengths_of(sentences, totaal_woorden) ==
    IF sentences # <<>>
    THEN [i \in 1..Len(sentences) |-> Len(tokenize(sentences[i]))]
    ELSE <<totaal_woorden>>

\* The mean sentence length with nothing in place of the whole text when
\* there are no sentences.
gem_zinslengte_of_zero(sentences, totaal_woorden) ==
    IF sentences # <<>>
    THEN LET sentence_lengths == sentence_lengths_of(sentences, totaal_woorden)
         IN  Rat(SumSeq(sentence_lengths), Len(sentence_lengths))
    ELSE RInt(0)

gem_zinslengte_of(sentences, totaal_woorden) ==
    IF sentences # <<>>
    THEN LET sentence_lengths == sentence_lengths_of(sentences, totaal_woorden)
         IN  Rat(SumSeq(sentence_lengths), Len(sentence_lengths))
    ELSE RInt(totaal_woorden)

\* The percentage looked up in the lexicon even when it is empty.
pct_frequent_of_lookup(tokens, woordenlijst, fallback) ==
    RMul(Rat(freq_count(tokens, woordenlijst), Len(tokens)), RInt(100))

\* pct_frequent, with the fallback of the scorer when the word list is empty.
pct_frequent_of(tokens, woordenlijst, fallback) ==
    IF woordenlijst # {}
    THEN RMul(Rat(freq_count(tokens, woordenlijst), Len(tokens)), RInt(100))
    ELSE RInt(fallback)

\* The score formula with the sign of the frequency coefficient dropped.
bilt_of_plus(pct_frequent, gem_woordlengte) ==
    RAdd(RAdd(BILT_INTERCEPT, RMul(RNeg(BILT_COEF_FREQ), pct_frequent)),
         RMul(BILT_COEF_WLEN, gem_woordlengte))

\* The BILT formula of analyse_avi.
bilt_of(pct_frequent, gem_woordlengte) ==
    RAdd(RAdd(BILT_INTERCEPT, RMul(BILT_COEF_FREQ, pct_frequent)),
         RMul(BILT_COEF_WLEN, gem_woordlengte))

\* The interval test with the upper bound taken inclusively.
in_level_closed(level, bilt) ==
    /\ (Falsy(level.bilt_min) \/ RLe(level.bilt_min, bilt))
    /\ (Falsy(level.bilt_max) \/ RLe(bilt, level.bilt_max))

\* One test of the loop of _bepaal_avi_niveau: bilt_min <= bilt < bilt_max,
\* a falsy bound being replaced by an infinity.
in_level(level, bilt) ==
    /\ (Falsy(level.bilt_min) \/ RLe(level.bilt_min, bilt))
    /\ (Falsy(level.bilt_max) \/ RLt(bilt, level.bilt_max))

RECURSIVE BepaalLoop(_, _)
BepaalLoop(bilt, i) ==
    IF i > Len(AVI_LEVELS) THEN "AVI-Plus"
    ELSE IF in_level(AVI_LEVELS[i], bilt) THEN AVI_LEVELS[i].niveau
    ELSE BepaalLoop(bilt, i + 1)

_bepaal_avi_niveau(bilt) == BepaalLoop(bilt, 1)

\* dict.get(key, default) on a dict kept as a function.
DictGet(dict, key, default) ==
    IF key \in DOMAIN dict THEN dict[key] ELSE default

\* The histogram loop counting every word once, however often it occurs.
RECURSIVE VerdelingLoop_distinct(_, _, _, _)
VerdelingLoop_distinct(tokens, i, verdeling, gezien) ==
    IF i > Len(tokens) THEN verdeling
    ELSE LET woord == tokens[i]
             lg == tel_lettergrepen(woord)
         IN  IF woord \in gezien
             THEN VerdelingLoop_distinct(tokens, i + 1, verdeling, gezien)
             ELSE VerdelingLoop_distinct(tokens, i + 1,
                      [k \in DOMAIN verdeling \cup {lg} |->
                          IF k = lg THEN DictGet(verdeling, lg, 0) + 1
                          ELSE verdeling[k]],
                      gezien \cup {woord})

\* for woord in tokens: verdeling[lg] = verdeling.get(lg, 0) + 1, from token i
\* on.  The loop keeps no set of words seen; gezien stays as it is given.
RECURSIVE VerdelingLoop(_, _, _, _)
VerdelingLoop(tokens, i, verdeling, gezien) ==
    IF i > Len(tokens) THEN verdeling
    ELSE LET lg == tel_lettergrepen(tokens[i])
         IN  VerdelingLoop(tokens, i + 1,
                 [k \in DOMAIN verdeling \cup {lg} |->
                     IF k = lg THEN DictGet(verdeling, lg, 0) + 1
                     ELSE verdeling[k]],
                 gezien)

\* The histogram loop of analyse_avi: syllable count -> number of tokens.
verdeling_of(tokens) == VerdelingLoop(tokens, 1, <<>>, {})

\* The loop without the set of words already seen.
RECURSIVE TeLangeWoordenLoop_repeats(_, _, _, _)
TeLangeWoordenLoop_repeats(tokens, i, max_lg, gezien) ==
    IF i > Len(tokens) THEN <<>>
    ELSE LET woord == tokens[i]
             lg == tel_lettergrepen(woord)
         IN  IF lg > max_lg
             THEN <<[woord |-> woord, lg |-> lg]>>
                    \o TeLangeWoordenLoop_repeats(tokens, i + 1, max_lg, gezien)
             ELSE TeLangeWoordenLoop_repeats(tokens, i + 1, max_lg, gezien)

\* The loop that collects te_lange_woorden.
RECURSIVE TeLangeWoordenLoop(_, _, _, _)
TeLangeWoordenLoop(tokens, i, max_lg, gezien) ==
    IF i > Len(tokens) THEN <<>>
    ELSE LET woord == tokens[i]
             lg == tel_lettergrepen(woord)
         IN  IF woord \notin gezien /\ lg > max_lg
             THEN <<[woord |-> woord, lg |-> lg]>>
                    \o TeLangeWoordenLoop(tokens, i + 1, max_lg, gezien \cup {woord})
             ELSE TeLangeWoordenLoop(tokens, i + 1, max_lg, gezien)

\* The loop that collects te_lange_zinnen: it runs over the split sentences.
RECURSIVE TeLangeZinnenLoop(_, _, _)
TeLangeZinnenLoop(sentences, i, max_zin) ==
    IF i > Len(sentences) THEN <<>>
    ELSE LET s == sentences[i]
             wc == Len(tokenize(s))
         IN  IF wc > max_zin
             THEN <<[tekst |-> SubSeq(s, 1, IF Len(s) < 80 THEN Len(s) ELSE 80),
                     woorden |-> wc]>>
                    \o TeLangeZinnenLoop(sentences, i + 1, max_zin)
             ELSE TeLangeZinnenLoop(sentences, i + 1, max_zin)

\* TextAnalyzer.analyse_avi.  target_niveau is None or a Str.
analyse_avi(woordenlijst, tekst, target_niveau) ==
    LET tokens == tokenize(tekst)
        sentences == split_sentences(tekst)
    IN  IF avi_te_kort(tokens) THEN None
        ELSE
        LET totaal_woorden == Len(tokens)
            gem_woordlengte == Rat(SumLen(tokens), totaal_woorden)
            pct_frequent == pct_frequent_of(tokens, woordenlijst, 70)
            gem_zinslengte == gem_zinslengte_of(sentences, totaal_woorden)
            bilt == bilt_of(pct_frequent, gem_woordlengte)
            kenmerken == IF FalsyStr(target_niveau) THEN AVI_KENMERKEN_get("")
                         ELSE AVI_KENMERKEN_get(target_niveau.s)
            max_lg == kenmerken.max_lettergrepen
            max_zin == kenmerken.max_zinslengte
        IN  [kind |-> "AVIResult",
             bilt |-> bilt,
             niveau |-> _bepaal_avi_niveau(bilt),
             totaal_woorden |-> totaal_woorden,
             gem_woordlengte |-> gem_woordlengte,
             pct_frequent |-> pct_frequent,
             gem_zinslengte |-> gem_zinslengte,
             lettergreep_verdeling |-> verdeling_of(tokens),
             te_lange_woorden |->
                 IF ~FalsyStr(target_niveau) /\ ~Falsy(max_lg)
                 THEN TeLangeWoordenLoop(tokens, 1, max_lg.num, {})
                 ELSE <<>>,
             te_lange_zinnen |->
                 IF ~FalsyStr(target_niveau) /\ ~Falsy(max_zin)
                 THEN TeLangeZinnenLoop(sentences, 1, max_zin.num)
                 ELSE <<>>]

\* The ratio with a sentence of 20 tokens counted as long.
long_sent_ratio_of_incl(sentence_lengths) ==
    Rat(Cardinality({i \in 1..Len(sentence_lengths) : sentence_lengths[i] >= 20}),
        Len(sentence_lengths))

\* sum(1 for l in sentence_lengths if l > 20) / len(sentence_lengths)
long_sent_ratio_of(sentence_lengths) ==
    Rat(Cardinality({i \in 1..Len(sentence_lengths) : sentence_lengths[i] > 20}),
        Len(sentence_lengths))

\* The marker loop counting every matching token instead of its category.
marker_types_of_tokens(tokens) ==
    {<<DISCOURSE_MARKERS[m].mtype, i>> :
        m \in 1..Len(DISCOURSE_MARKERS),
        i \in {j \in 1..Len(tokens) : \E k \in 1..Len(DISCOURSE_MARKERS) :
                                        tokens[j] \in DISCOURSE_MARKERS[k].markers}}

\* The marker loop of analyse_ref: the categories one of whose markers is a
\* token of the text.
marker_types_of(tokens) ==
    {DISCOURSE_MARKERS[m].mtype :
        m \in {k \in 1..Len(DISCOURSE_MARKERS) :
                 \E i \in 1..Len(tokens) : tokens[i] \in DISCOURSE_MARKERS[k].markers}}

\* The score formula of analyse_ref.
ref_score_of(long_sent_pct, marker_diversity, gem_woordlengte) ==
    RAdd(RAdd(RAdd(REF_INTERCEPT, RMul(REF_COEF_LONG_SENT, long_sent_pct)),
              RMul(REF_COEF_MARKER_DIV, RInt(marker_diversity))),
         RMul(REF_COEF_WL, gem_woordlengte))

\* The band chain with both cut-offs taken inclusively.
ref_classify_incl(score) ==
    IF RLe(score, REF_CUTOFF_1F_2F)
    THEN [niveau |-> "1F",
          confidence |-> IF RLt(score, Rat(10, 10)) THEN "Hoog" ELSE "Gemiddeld"]
    ELSE IF RLe(score, REF_CUTOFF_2F_3F)
    THEN [niveau |-> "2F",
          confidence |-> IF RLe(Rat(15, 10), score) /\ RLe(score, Rat(21, 10))
                         THEN "Hoog" ELSE "Gemiddeld (grensgebied)"]
    ELSE [niveau |-> "3F",
          confidence |-> IF RGt(score, Rat(27, 10)) THEN "Hoog" ELSE "Gemiddeld"]

\* The confidence chain with the 2F window open at both ends and the 3F
\* bound taken inclusively.
ref_classify_open(score) ==
    IF RLt(score, REF_CUTOFF_1F_2F)
    THEN [niveau |-> "1F",
          confidence |-> IF RLt(score, Rat(10, 10)) THEN "Hoog" ELSE "Gemiddeld"]
    ELSE IF RLt(score, REF_CUTOFF_2F_3F)
    THEN [niveau |-> "2F",
          confidence |-> IF RLt(Rat(15, 10), score) /\ RLt(score, Rat(21, 10))
                         THEN "Hoog" ELSE "Gemiddeld (grensgebied)"]
    ELSE [niveau |-> "3F",
          confidence |-> IF RLe(Rat(27, 10), score) THEN "Hoog" ELSE "Gemiddeld"]

\* The band and confidence chain of analyse_ref.
ref_classify(score) ==
    IF RLt(score, REF_CUTOFF_1F_2F)
    THEN [niveau |-> "1F",
          confidence |-> IF RLt(score, Rat(10, 10)) THEN "Hoog" ELSE "Gemiddeld"]
    ELSE IF RLt(score, REF_CUTOFF_2F_3F)
    THEN [niveau |-> "2F",
          confidence |-> IF RLe(Rat(15, 10), score) /\ RLe(score, Rat(21, 10))
                         THEN "Hoog" ELSE "Gemiddeld (grensgebied)"]
    ELSE [niveau |-> "3F",
          confidence |-> IF RGt(score, Rat(27, 10)) THEN "Hoog" ELSE "Gemiddeld"]

\* analyse_ref with pct_frequent weighted into the score.
analyse_ref_weighted(woordenlijst, tekst) ==
    LET tokens == tokenize(tekst)
        sentences == split_sentences(tekst)
    IN  IF ref_te_kort(tokens) THEN None
        ELSE
        LET totaal_woorden == Len(tokens)
            gem_woordlengte == Rat(SumLen(tokens), totaal_woorden)
            sentence_lengths == sentence_lengths_of(sentences, totaal_woorden)
            gem_zinslengte == gem_zinslengte_of(sentences, totaal_woorden)
            long_sent_ratio == long_sent_ratio_of(sentence_lengths)
            long_sent_pct == RMul(long_sent_ratio, RInt(100))
            marker_diversity == Cardinality(marker_types_of(tokens))
            pct_frequent == pct_frequent_of(tokens, woordenlijst, 65)
            score == RSub(ref_score_of(long_sent_pct, marker_diversity,
                                       gem_woordlengte),
                          RMul(pct_frequent, Rat(1, 100)))
            band == ref_classify(score)
        IN  [kind |-> "REFResult",
             niveau |-> band.niveau,
             score |-> score,
             confidence |-> band.confidence,
             totaal_woorden |-> totaal_woorden,
             gem_woordlengte |-> gem_woordlengte,
             gem_zinslengte |-> gem_zinslengte,
             pct_frequent |-> pct_frequent,
             long_sent_ratio |-> long_sent_ratio,
             marker_diversity |-> marker_diversity]

\* TextAnalyzer.analyse_ref.
analyse_ref(woordenlijst, tekst) ==
    LET tokens == tokenize(tekst)
        sentences == split_sentences(tekst)
    IN  IF ref_te_kort(tokens) THEN None
        ELSE
        LET totaal_woorden == Len(tokens)
            gem_woordlengte == Rat(SumLen(tokens), totaal_woorden)
            sentence_lengths == sentence_lengths_of(sentences, totaal_woorden)
            gem_zinslengte == gem_zinslengte_of(sentences, totaal_woorden)
            long_sent_ratio == long_sent_ratio_of(sentence_lengths)
            long_sent_pct == RMul(long_sent_ratio, RInt(100))
            marker_diversity == Cardinality(marker_types_of(tokens))
            pct_frequent == pct_frequent_of(tokens, woordenlijst, 65)
            score == ref_score_of(long_sent_pct, marker_diversity, gem_woordlengte)
            band == ref_classify(score)
        IN  [kind |-> "REFResult",
             niveau |-> band.niveau,
             score |-> score,
             confidence |-> band.confidence,
             totaal_woorden |-> totaal_woorden,
             gem_woordlengte |-> gem_woordlengte,
             gem_zinslengte |-> gem_zinslengte,
             pct_frequent |-> pct_frequent,
             long_sent_ratio |-> long_sent_ratio,
             marker_diversity |-> marker_diversity]

\* ------------------------------------------------------------ suggesties
\* What a call hands back: the returned list, or the exception it raised.
Returned(items) == [kind |-> "list", items |-> items]
Raised(exc) == [kind |-> "raise", exc |-> exc]

\* suggesties.append(line) under a condition.
Opt(cond, line) == IF cond THEN <<line>> ELSE <<>>

\* next((i for i, l in enumerate(AVI_LEVELS) if l['niveau'] == niveau), 5),
\* as an index from 0.
avi_index(niveau) ==
    IF \E i \in 1..Len(AVI_LEVELS) : AVI_LEVELS[i].niveau = niveau
    THEN (CHOOSE i \in 1..Len(AVI_LEVELS) : AVI_LEVELS[i].niveau = niveau) - 1
    ELSE 5

\* The branch test of get_avi_suggesties: the simplify lines are emitted.
avi_vereenvoudig(target_idx, current_idx) == target_idx < current_idx

\* The lines are modelled by their headings; the numbers formatted into them
\* are left out.
get_avi_suggesties(result, target) ==
    LET current_idx == avi_index(result.niveau)
        target_idx == avi_index(target)
        target_specs == AVI_LEVELS[target_idx + 1]
        target_kenmerken == AVI_KENMERKEN_get(target)
    IN  Returned(
          (IF avi_vereenvoudig(target_idx, current_idx)
           THEN Opt(RGt(result.gem_woordlengte, target_specs.gem_wlen),
                    "Kortere woorden")
                \o Opt(RLt(result.pct_frequent, target_specs.pct_freq),
                       "Frequentere woorden")
                \o Opt(~Falsy(target_kenmerken.max_lettergrepen), "Max lettergrepen")
                \o Opt(~Falsy(target_kenmerken.max_zinslengte), "Kortere zinnen")
                \o Opt(~FalsyStr(target_kenmerken.verboden), "Vermijd")
           ELSE Opt(RLt(result.gem_woordlengte, target_specs.gem_wlen),
                    "Langere woorden")
                \o Opt(RGt(result.pct_frequent, target_specs.pct_freq),
                       "Minder frequente woorden")
                \o Opt(~FalsyStr(target_kenmerken.nieuw), "Nieuw toegestaan"))
          \o Opt(~FalsyStr(target_kenmerken.woordtypen), "Woordtypen"))

\* The branch test of get_ref_suggesties.
ref_vereenvoudig(target, niveau) == niveau_order(target) < niveau_order(niveau)

TipVereenvoudig ==
    "Tip: Gebruik korte, concrete zinnen. Vermijd bijzinnen en abstracte begrippen."

TipVerrijk ==
    "Tip: Voeg bijzinnen toe, gebruik abstractere begrippen en expliciete argumentatiestructuren."

\* get_ref_suggesties with the word-length tolerance taken inclusively.
get_ref_suggesties_incl(result, target) ==
    IF target \notin REF_NIVEAUS THEN Raised("KeyError")
    ELSE
    LET target_info == REF_NIVEAU_INFO_get(target)
        long_sent_pct == RMul(result.long_sent_ratio, RInt(100))
    IN  Returned(
          IF ref_vereenvoudig(target, result.niveau)
          THEN Opt(RLe(RAdd(target_info.wl_typical, Rat(2, 10)),
                       result.gem_woordlengte),
                   "Kortere woorden")
               \o Opt(RGt(result.gem_zinslengte,
                          RAdd(target_info.zl_typical, RInt(2))),
                      "Kortere zinnen")
               \o Opt(RGt(long_sent_pct,
                          RAdd(target_info.long_sent_typical, RInt(5))),
                      "Minder lange zinnen")
               \o <<TipVereenvoudig>>
          ELSE Opt(RLe(result.gem_woordlengte,
                       RSub(target_info.wl_typical, Rat(2, 10))),
                   "Langere woorden")
               \o Opt(RLt(result.gem_zinslengte,
                          RSub(target_info.zl_typical, RInt(2))),
                      "Langere zinnen")
               \o Opt(RLt(long_sent_pct,
                          RSub(target_info.long_sent_typical, RInt(5))),
                      "Meer lange zinnen")
               \o Opt(result.marker_diversity < 4, "Meer signaalwoorden")
               \o <<TipVerrijk>>)

\* get_ref_suggesties with the marker test moved to the head of the enrich
\* branch.
get_ref_suggesties_marker_first(result, target) ==
    IF target \notin REF_NIVEAUS THEN Raised("KeyError")
    ELSE
    LET target_info == REF_NIVEAU_INFO_get(target)
        long_sent_pct == RMul(result.long_sent_ratio, RInt(100))
    IN  Returned(
          IF ref_vereenvoudig(target, result.niveau)
          THEN Opt(RGt(result.gem_woordlengte,
                       RAdd(target_info.wl_typical, Rat(2, 10))),
                   "Kortere woorden")
               \o Opt(RGt(result.gem_zinslengte,
                          RAdd(target_info.zl_typical, RInt(2))),
                      "Kortere zinnen")
               \o Opt(RGt(long_sent_pct,
                          RAdd(target_info.long_sent_typical, RInt(5))),
                      "Minder lange zinnen")
               \o <<TipVereenvoudig>>
          ELSE Opt(result.marker_diversity < 4, "Meer signaalwoorden")
               \o Opt(RLt(result.gem_woordlengte,
                          RSub(target_info.wl_typical, Rat(2, 10))),
                      "Langere woorden")
               \o Opt(RLt(result.gem_zinslengte,
                          RSub(target_info.zl_typical, RInt(2))),
                      "Langere zinnen")
               \o Opt(RLt(long_sent_pct,
                          RSub(target_info.long_sent_typical, RInt(5))),
                      "Meer lange zinnen")
               \o <<TipVerrijk>>)

\* get_ref_suggesties without the closing tip of either branch.
get_ref_suggesties_no_tip(result, target) ==
    IF target \notin REF_NIVEAUS THEN Raised("KeyError")
    ELSE
    LET target_info == REF_NIVEAU_INFO_get(target)
        long_sent_pct == RMul(result.long_sent_ratio, RInt(100))
    IN  Returned(
          IF ref_vereenvoudig(target, result.niveau)
          THEN Opt(RGt(result.gem_woordlengte,
                       RAdd(target_info.wl_typical, Rat(2, 10))),
                   "Kortere woorden")
               \o Opt(RGt(result.gem_zinslengte,
                          RAdd(target_info.zl_typical, RInt(2))),
                      "Kortere zinnen")
               \o Opt(RGt(long_sent_pct,
                          RAdd(target_info.long_sent_typical, RInt(5))),
                      "Minder lange zinnen")
          ELSE Opt(RLt(result.gem_woordlengte,
                       RSub(target_info.wl_typical, Rat(2, 10))),
                   "Langere woorden")
               \o Opt(RLt(result.gem_zinslengte,
                          RSub(target_info.zl_typical, RInt(2))),
                      "Langere zinnen")
               \o Opt(RLt(long_sent_pct,
                          RSub(target_info.long_sent_typical, RInt(5))),
                      "Meer lange zinnen")
               \o Opt(result.marker_diversity < 4, "Meer signaalwoorden"))

get_ref_suggesties(result, target) ==
    IF target \notin REF_NIVEAUS THEN Raised("KeyError")
    ELSE
    LET target_info == REF_NIVEAU_INFO_get(target)
        long_sent_pct == RMul(result.long_sent_ratio, RInt(100))
    IN  Returned(
          IF ref_vereenvoudig(target, result.niveau)
          THEN Opt(RGt(result.gem_woordlengte,
                       RAdd(target_info.wl_typical, Rat(2, 10))),
                   "Kortere woorden")
               \o Opt(RGt(result.gem_zinslengte,
                          RAdd(target_info.zl_typical, RInt(2))),
                      "Kortere zinnen")
               \o Opt(RGt(long_sent_pct,
                          RAdd(target_info.long_sent_typical, RInt(5))),
                      "Minder lange zinnen")
               \o <<TipVereenvoudig>>
          ELSE Opt(RLt(result.gem_woordlengte,
                       RSub(target_info.wl_typical, Rat(2, 10))),
                   "Langere woorden")
               \o Opt(RLt(result.gem_zinslengte,
                          RSub(target_info.zl_typical, RInt(2))),
                      "Langere zinnen")
               \o Opt(RLt(long_sent_pct,
                          RSub(target_info.long_sent_typical, RInt(5))),
                      "Meer lange zinnen")
               \o Opt(result.marker_diversity < 4, "Meer signaalwoorden")
               \o <<TipVerrijk>>)

\* ---------------------------------------------------------------- inputs
\* The fragments a text is typed from, each with its number of tokens.
Chunks ==
    <<
      \* nine tokens of four letters, eight of them a contrastive marker (9)
      <<"m", "a", "a", "r", " ", "m", "a", "a", "r", " ", "m", "a", "a",
        "r", " ", "m", "a", "a", "r", " ", "m", "a", "a", "r", " ", "m",
        "a", "a", "r", " ", "m", "a", "a", "r", " ", "m", "a", "a", "r",
        " ", "b", "o", "o", "m", " ">>,
      \* one token of four letters (1)
      <<"b", "o", "o", "m", " ">>,
      \* ten tokens in pieces of at most five characters: no sentence (10)
      <<"I", "k", " ", "g", "a", ".", " ", "I", "k", " ", "g", "a", "!",
        " ", "i", "k", "?", " ", "g", "a", " ", "n", "u", ".", " ", "i",
        "k", " ", "g", "a", ".", " ", "o", "p", ".", " ">>,
      \* a sentence of ten tokens with a causal marker and a three-syllable word (10)
      <<"O", "m", "d", "a", "t", " ", "d", "e", " ", "c", "o", "m", "p",
        "u", "t", "e", "r", " ", "n", "u", " ", "o", "p", " ", "d", "e",
        " ", "m", "a", "t", " ", "z", "i", "t", ",", " ", "g", "a", " ",
        "i", "k", ".", " ">>,
      \* ten tokens without a sentence end; terwijl is temporal and contrastive (10)
      <<"t", "e", "r", "w", "i", "j", "l", " ", "i", "k", " ", "d", "e",
        " ", "l", "a", "n", "g", "e", " ", "w", "e", "g", " ", "n", "a",
        "a", "r", " ", "h", "u", "i", "s", " ", "l", "o", "o", "p", " ",
        "z", "i", "e", " ", "i", "k", " ">>,
      \* the conclusive marker of two words (2)
      <<"t", "o", "t", " ", "s", "l", "o", "t", ".", " ">>
    >>

\* The word list files the analyzer may be constructed from: one that cannot
\* be read, one without rows, one with rows (a capitalised and an empty cell
\* among them).
Files ==
    <<[kind |-> "unreadable"],
      [kind |-> "xlsx", column |-> <<>>],
      [kind |-> "xlsx",
       column |-> <<Cell(<<"M", "a", "a", "r">>), Cell(<<"i", "k">>), NaN,
                    Cell(<<"d", "e">>), Cell(<<"g", "a">>), Cell(<<"o", "p">>),
                    Cell(<<"n", "u">>)>>]>>

AVI_NIVEAUS == {AVI_LEVELS[i].niveau : i \in 1..Len(AVI_LEVELS)}

\* The target_niveau arguments of analyse_avi: none, a band with caps, a band
\* without.
AnalyseTargets == {None, Str("AVI-M3"), Str("AVI-M5")}

\* The target arguments of get_avi_suggesties: every band, and a name that is
\* no band.
AviSugTargets == AVI_NIVEAUS \cup {"AVI-X"}

\* The targets suggestions are asked for on a typed text: the lowest band, a
\* middle band, the highest band, and a name that is no band.
TypedAviSugTargets == {"AVI-M3", "AVI-M5", "AVI-Plus", "AVI-X"}

\* The target arguments of get_ref_suggesties.
RefSugTargets == REF_NIVEAUS \cup {"4F"}

\* ----------------------------------------------------------------- state
VARIABLES
    woordenlijst,   \* TextAnalyzer.woordenlijst
    tekst,          \* the text in the input area
    chunks,         \* the number of fragments typed into it
    scorer,         \* the last analyse_avi / analyse_ref call and its arguments
    result,         \* what that call returned
    suggesties,     \* what the last get_*_suggesties call returned
    log,            \* per call input, what the first such call returned
    call,           \* a helper function applied on its own: [kind, arg, ret]
    threads,        \* per session thread sharing the analyzer, its call in progress
    conv,           \* the convert call of a converter: its position and its result
    sessie          \* st.session_state and the mode radio of the page

\* The session state the page starts with: the first mode of the radio, no
\* quiz, no phase, no report.
SessionStart ==
    [mode |-> "AVI", toets_data |-> None, toets_fase |-> None, rapport |-> None]

vars == <<woordenlijst, tekst, chunks, scorer, result, suggesties, log, call,
          threads, conv, sessie>>

\* TextAnalyzer.__init__ on some word list file; nothing typed or analysed.
Init ==
    /\ \E f \in 1..Len(Files) : woordenlijst = _laad_woordenlijst(Files[f])
    /\ tekst = <<>>
    /\ chunks = 0
    /\ scorer = NotRun
    /\ result = NotRun
    /\ suggesties = NotRun
    /\ log = <<>>
    /\ threads = <<>>
    /\ conv = NotRun
    /\ sessie = SessionStart
    /\ call = NotRun

\* The user types one more fragment; the page is rendered anew.
Typ(c) ==
    /\ chunks < MaxChunks
    /\ tekst' = tekst \o Chunks[c]
    /\ chunks' = chunks + 1
    /\ scorer' = NotRun
    /\ result' = NotRun
    /\ suggesties' = NotRun
    /\ UNCHANGED <<sessie, conv, threads, woordenlijst, log, call>>

\* The user empties the input area.
Wis ==
    /\ chunks > 0
    /\ tekst' = <<>>
    /\ chunks' = 0
    /\ scorer' = NotRun
    /\ result' = NotRun
    /\ suggesties' = NotRun
    /\ UNCHANGED <<sessie, conv, threads, woordenlijst, log, call>>

\* analyse_avi with every token of the text remembered in the lexicon.
AnalyseAviCall_learns(text, target_niveau) ==
    /\ scorer' = [kind |-> "analyse_avi", target_niveau |-> target_niveau]
    /\ result' = analyse_avi(woordenlijst, text, target_niveau)
    /\ woordenlijst' = woordenlijst \cup {tokenize(text)[i] : i \in 1..Len(tokenize(text))}

\* What a call analyzer.analyse_avi(text, target_niveau) does to the
\* analyzer: it returns its result and writes no attribute.
AnalyseAviCall(text, target_niveau) ==
    /\ scorer' = [kind |-> "analyse_avi", target_niveau |-> target_niveau]
    /\ result' = analyse_avi(woordenlijst, text, target_niveau)
    /\ UNCHANGED woordenlijst

\* What a call analyzer.analyse_ref(text) does to the analyzer.
AnalyseRefCall(text) ==
    /\ scorer' = [kind |-> "analyse_ref", target_niveau |-> None]
    /\ result' = analyse_ref(woordenlijst, text)
    /\ UNCHANGED woordenlijst

\* analyzer.analyse_avi(tekst, target_niveau), once per rendered text.
AnalyseAvi(target_niveau) ==
    /\ scorer = NotRun
    /\ AnalyseAviCall(tekst, target_niveau)
    /\ UNCHANGED <<sessie, conv, threads, tekst, chunks, suggesties, log, call>>

\* analyzer.analyse_ref(tekst), once per rendered text.
AnalyseRef ==
    /\ scorer = NotRun
    /\ AnalyseRefCall(tekst)
    /\ UNCHANGED <<sessie, conv, threads, tekst, chunks, suggesties, log, call>>

\* analyzer.get_avi_suggesties(result, target) on an AVIResult.
GetAviSuggesties(target) ==
    /\ result.kind = "AVIResult"
    /\ suggesties = NotRun
    /\ suggesties' = [kind |-> "get_avi_suggesties", target |-> target,
                      ret |-> get_avi_suggesties(result, target)]
    /\ UNCHANGED <<sessie, conv, threads, woordenlijst, tekst, chunks, scorer, result, log, call>>

\* analyzer.get_ref_suggesties(result, target) on a REFResult.
GetRefSuggesties(target) ==
    /\ result.kind = "REFResult"
    /\ suggesties = NotRun
    /\ suggesties' = [kind |-> "get_ref_suggesties", target |-> target,
                      ret |-> get_ref_suggesties(result, target)]
    /\ UNCHANGED <<sessie, conv, threads, woordenlijst, tekst, chunks, scorer, result, log, call>>

Next ==
    \/ \E c \in 1..Len(Chunks) : Typ(c)
    \/ Wis
    \/ \E t \in AnalyseTargets : AnalyseAvi(t)
    \/ AnalyseRef
    \/ \E t \in TypedAviSugTargets : GetAviSuggesties(t)
    \/ \E t \in RefSugTargets : GetRefSuggesties(t)

\* The application: a text is typed, analysed, and suggestions are asked.
Spec == Init /\ [][Next]_vars

\* ------------------------------------------- helper functions on their own
\* The characters the words handed to tel_lettergrepen are made of.
WordAlphabet == {"a", "E", "ë", "k", "t", " "}

RECURSIVE WordsUpTo(_)
WordsUpTo(n) ==
    IF n = 0 THEN {<<>>}
    ELSE LET shorter == WordsUpTo(n - 1)
         IN  shorter \cup {Append(w, c) : w \in shorter, c \in WordAlphabet}

\* Every word over the alphabet up to the bound, and the two words the
\* documentation names.
Words ==
    WordsUpTo(MaxWordLen)
        \cup {<<"i", "k">>, <<"c", "o", "m", "p", "u", "t", "e", "r">>}

\* The scores on the grid from lo to hi.
Grid(lo, hi) == {Rat(k, ScoreRes) : k \in (lo * ScoreRes)..(hi * ScoreRes)}

\* A helper function about to be applied to one input of its domain.
Pending(fn, arg) == [kind |-> "pending", fn |-> fn, arg |-> arg]

\* The fragments the texts handed to split_sentences are made of: pieces of
\* one, five and six characters, white space and the three sentence enders.
TextFragments ==
    {<<"f">>, <<"a", "b", "c", "d", "e">>, <<"z", "i", "n", "n", "e", "n">>,
     <<" ">>, <<"\n">>, <<".">>, <<"!">>, <<"?">>}

RECURSIVE TextsUpTo(_)
TextsUpTo(n) ==
    IF n = 0 THEN {<<>>}
    ELSE LET shorter == TextsUpTo(n - 1)
         IN  shorter \cup {t \o f : t \in shorter, f \in TextFragments}

Texts == TextsUpTo(MaxFragments)

\* The direction a converter logs for its source analysis.
conv_direction(kind, target_niveau, source_analysis) ==
    IF kind = "AVIConverter"
    THEN IF avi_index(target_niveau) <= avi_index(source_analysis.niveau)
         THEN "simplify" ELSE "enrich"
    ELSE IF niveau_order(target_niveau) < niveau_order(source_analysis.niveau)
         THEN "simplify" ELSE "enrich"

\* get_direction of the app, without the label: "down", "up" or "same".
get_direction(source, target, mode) ==
    LET s == IF mode = "avi" THEN avi_index(source)
             ELSE IF source \in REF_NIVEAUS THEN niveau_order(source) ELSE 2
        t == IF mode = "avi" THEN avi_index(target)
             ELSE IF target \in REF_NIVEAUS THEN niveau_order(target) ELSE 2
    IN  IF t < s THEN "down" ELSE IF t > s THEN "up" ELSE "same"

\* The band names a direction is derived for: every band and two names that
\* are no band.
DirectionNames == AVI_NIVEAUS \cup {"AVI-X", ""}

\* Every marker listed in DISCOURSE_MARKERS, whatever its category.
AllMarkers ==
    UNION {DISCOURSE_MARKERS[m].markers : m \in 1..Len(DISCOURSE_MARKERS)}

InitFn ==
    /\ woordenlijst = {}
    /\ tekst = <<>>
    /\ chunks = 0
    /\ scorer = NotRun
    /\ result = NotRun
    /\ suggesties = NotRun
    /\ log = <<>>
    /\ threads = <<>>
    /\ conv = NotRun
    /\ sessie = SessionStart
    /\ \/ \E woord \in Words : call = Pending("tel_lettergrepen", woord)
       \/ \E bilt \in Grid(-100, 200) : call = Pending("_bepaal_avi_niveau", bilt)
       \/ \E score \in Grid(-3, 6) : call = Pending("ref_classify", score)
       \/ \E text \in Texts : call = Pending("split_sentences", text)
       \/ \E marker \in AllMarkers : call = Pending("tokenize", marker)
       \/ \E current \in DirectionNames, target \in DirectionNames :
             call = Pending("direction", [current |-> current, target |-> target])

TelLettergrepenCall ==
    /\ call.kind = "pending"
    /\ call.fn = "tel_lettergrepen"
    /\ call' = [kind |-> "tel_lettergrepen", arg |-> call.arg,
                ret |-> tel_lettergrepen(call.arg)]
    /\ UNCHANGED <<sessie, conv, threads, woordenlijst, tekst, chunks, scorer, result, suggesties, log>>

BepaalAviNiveauCall ==
    /\ call.kind = "pending"
    /\ call.fn = "_bepaal_avi_niveau"
    /\ call' = [kind |-> "_bepaal_avi_niveau", arg |-> call.arg,
                ret |-> _bepaal_avi_niveau(call.arg)]
    /\ UNCHANGED <<sessie, conv, threads, woordenlijst, tekst, chunks, scorer, result, suggesties, log>>

RefClassifyCall ==
    /\ call.kind = "pending"
    /\ call.fn = "ref_classify"
    /\ call' = [kind |-> "ref_classify", arg |-> call.arg,
                ret |-> ref_classify(call.arg)]
    /\ UNCHANGED <<sessie, conv, threads, woordenlijst, tekst, chunks, scorer, result, suggesties, log>>

SplitSentencesCall ==
    /\ call.kind = "pending"
    /\ call.fn = "split_sentences"
    /\ call' = [kind |-> "split_sentences", arg |-> call.arg,
                ret |-> split_sentences(call.arg)]
    /\ UNCHANGED <<sessie, conv, threads, woordenlijst, tekst, chunks, scorer, result, suggesties, log>>

\* The three places that derive a direction from the band of an analysis and
\* a target band, each applied to the same pair: the app, the converter, and
\* the branch get_avi_suggesties takes.
DirectionCall ==
    /\ call.kind = "pending"
    /\ call.fn = "direction"
    /\ call' = [kind |-> "direction", arg |-> call.arg,
                ret |-> [get_direction |->
                             get_direction(call.arg.current, call.arg.target, "avi"),
                         convert |->
                             conv_direction("AVIConverter", call.arg.target,
                                            [niveau |-> call.arg.current]),
                         get_avi_suggesties |->
                             IF avi_vereenvoudig(avi_index(call.arg.target),
                                                 avi_index(call.arg.current))
                             THEN "simplify" ELSE "enrich"]]
    /\ UNCHANGED <<sessie, conv, threads, woordenlijst, tekst, chunks, scorer, result, suggesties, log>>

\* tokenize applied to a text that is one listed marker, and the marker loop
\* of analyse_ref applied to its tokens.
TokenizeCall ==
    /\ call.kind = "pending"
    /\ call.fn = "tokenize"
    /\ call' = [kind |-> "tokenize", arg |-> call.arg,
                ret |-> [tokens |-> tokenize(call.arg),
                         marker_types |-> marker_types_of(tokenize(call.arg))]]
    /\ UNCHANGED <<sessie, conv, threads, woordenlijst, tekst, chunks, scorer, result, suggesties, log>>

NextFn ==
    \/ TelLettergrepenCall
    \/ BepaalAviNiveauCall
    \/ RefClassifyCall
    \/ SplitSentencesCall
    \/ DirectionCall
    \/ TokenizeCall

\* The syllable counter and the two classifiers, each applied once to an
\* input of its bounded domain.
SpecFn == InitFn /\ [][NextFn]_vars

\* ============================================================ properties

\* ---- C1
\* C1: analyse_avi returns no result exactly when the text has fewer than
\* 10 word tokens and analyse_ref exactly when it has fewer than 20; with 10
\* (resp. 20) tokens or more each returns a result record, and neither call
\* ends in anything but one of these two outcomes.
C1_MinimumLength ==
    LET n == Len(tokenize(tekst))
    IN  /\ scorer.kind = "analyse_avi" =>
            /\ result.kind \in {"None", "AVIResult"}
            /\ (result = None) <=> (n < 10)
        /\ scorer.kind = "analyse_ref" =>
            /\ result.kind \in {"None", "REFResult"}
            /\ (result = None) <=> (n < 20)

\* A text of exactly 10 tokens has been scored by analyse_avi.
C1_Witness ==
    /\ scorer.kind = "analyse_avi"
    /\ Len(tokenize(tekst)) = 10
    /\ result.kind = "AVIResult"

\* ---- C2
\* The band intervals as the table states them: an absent bound is
\* unbounded, the lower bound belongs to the band, the upper does not.
InTableInterval(level, bilt) ==
    /\ (level.bilt_min = None \/ RLe(level.bilt_min, bilt))
    /\ (level.bilt_max = None \/ RLt(bilt, level.bilt_max))

\* C2: every score from -100 to 200 lies in the interval of exactly one of
\* the eleven bands and _bepaal_avi_niveau returns that band; a score below
\* 56 gets AVI-M3 and a score of 77 or more gets AVI-Plus.
C2_BandsPartition ==
    call.kind = "_bepaal_avi_niveau" =>
        LET bilt == call.arg
            hits == {i \in 1..Len(AVI_LEVELS) : InTableInterval(AVI_LEVELS[i], bilt)}
        IN  /\ Len(AVI_LEVELS) = 11
            /\ Cardinality(hits) = 1
            /\ \A i \in hits : call.ret = AVI_LEVELS[i].niveau
            /\ RLt(bilt, RInt(56)) => call.ret = "AVI-M3"
            /\ RLe(RInt(77), bilt) => call.ret = "AVI-Plus"

\* The score 56, where the first band ends and the second begins, has been
\* classified.
C2_Witness ==
    /\ call.kind = "_bepaal_avi_niveau"
    /\ call.arg = RInt(56)
    /\ call.ret = "AVI-E3"

\* ---- C3
\* The readability formula on a result, and the band of its score.
BiltFormulaHolds(r) ==
    /\ RMul(RInt(100), r.bilt)
         = RAdd(RSub(RInt(4321), RMul(RInt(23), r.pct_frequent)),
                RMul(RInt(863), r.gem_woordlengte))
    /\ \E i \in 1..Len(AVI_LEVELS) :
          /\ AVI_LEVELS[i].niveau = r.niveau
          /\ InTableInterval(AVI_LEVELS[i], r.bilt)

\* A result with 80 percent frequent tokens and mean word length 4.0.
IsWorkedExample(r) ==
    /\ r.kind = "AVIResult"
    /\ r.pct_frequent = RInt(80)
    /\ r.gem_woordlengte = RInt(4)

\* C3 as stated: the score is 43.21 - 0.23 * pct_frequent + 8.63 *
\* gem_woordlengte, classified into its band, and for 80 percent and 4.0 it
\* is 59.37 in band AVI-E3.
C3_AsStated ==
    result.kind = "AVIResult" =>
        /\ BiltFormulaHolds(result)
        /\ IsWorkedExample(result) =>
              result.bilt = Rat(5937, 100) /\ result.niveau = "AVI-E3"

\* C3: the score is 43.21 - 0.23 * pct_frequent + 8.63 * gem_woordlengte,
\* classified into its band, and for 80 percent and 4.0 it is 59.33 in band
\* AVI-E3.
C3_BiltFormula ==
    result.kind = "AVIResult" =>
        /\ BiltFormulaHolds(result)
        /\ IsWorkedExample(result) =>
              result.bilt = Rat(5933, 100) /\ result.niveau = "AVI-E3"

\* The worked example has been scored.
C3_Witness == IsWorkedExample(result)

\* ---- C4
\* C4: every score is given exactly one band: 1F below 1.25, 2F from 1.25
\* up to but not including 2.35, 3F from 2.35 on.
C4_RefBands ==
    call.kind = "ref_classify" =>
        LET s == call.arg
            below125 == s.num * 100 < 125 * s.den
            below235 == s.num * 100 < 235 * s.den
        IN  /\ call.ret.niveau \in {"1F", "2F", "3F"}
            /\ (call.ret.niveau = "1F") <=> below125
            /\ (call.ret.niveau = "2F") <=> (~below125 /\ below235)
            /\ (call.ret.niveau = "3F") <=> ~below235

\* The score 1.25 has been classified as 2F.
C4_Witness ==
    /\ call.kind = "ref_classify"
    /\ call.arg = Rat(125, 100)
    /\ call.ret.niveau = "2F"

\* ---- C5
\* C5: the confidence label follows from the score alone: in 1F it is high
\* exactly below 1.0 and medium otherwise; in 2F it is high exactly from 1.5
\* to 2.1, both included, and medium (boundary) otherwise; in 3F it is high
\* exactly above 2.7 and medium otherwise.
C5_RefConfidence ==
    call.kind = "ref_classify" =>
        LET s == call.arg
            c == call.ret.confidence
            n == call.ret.niveau
        IN  /\ n = "1F" =>
                c = IF s.num * 10 < 10 * s.den THEN "Hoog" ELSE "Gemiddeld"
            /\ n = "2F" =>
                c = IF 15 * s.den <= s.num * 10 /\ s.num * 10 <= 21 * s.den
                    THEN "Hoog" ELSE "Gemiddeld (grensgebied)"
            /\ n = "3F" =>
                c = IF s.num * 10 > 27 * s.den THEN "Hoog" ELSE "Gemiddeld"

\* The score 2.1, the upper end of the high-confidence window of 2F, has
\* been classified.
C5_Witness ==
    /\ call.kind = "ref_classify"
    /\ call.arg = Rat(21, 10)
    /\ call.ret = [niveau |-> "2F", confidence |-> "Hoog"]

\* ---- C6
\* The number of maximal runs of consecutive vowels in a word.
VowelRuns(w) ==
    Cardinality({i \in 1..Len(w) :
                   w[i] \in klinkers /\ (i = 1 \/ w[i - 1] \notin klinkers)})

\* C6 as stated: for every non-empty word the count is the number of vowel
\* runs, or 1 if there is none; the count is 0 only for the empty string.
C6_AsStated ==
    call.kind = "tel_lettergrepen" =>
        LET w == Lower(call.arg)
        IN  /\ call.arg # <<>> => call.ret = Max(1, VowelRuns(w))
            /\ call.ret = 0 => call.arg = <<>>

\* C6: for every word that is not empty once surrounding whitespace is
\* trimmed the count is the number of vowel runs, or 1 if there is none, so
\* "ik" counts 1 and "computer" 3; the count is 0 exactly for the strings
\* that are empty after trimming.
C6_Lettergrepen ==
    call.kind = "tel_lettergrepen" =>
        LET w == Lower(call.arg)
        IN  /\ Strip(w) # <<>> => call.ret = Max(1, VowelRuns(w))
            /\ (call.ret = 0) <=> (Strip(w) = <<>>)
            /\ call.arg = <<"i", "k">> => call.ret = 1
            /\ call.arg = <<"c", "o", "m", "p", "u", "t", "e", "r">> => call.ret = 3

\* A word whose two neighbouring vowels, one in upper case, form a single
\* run has been counted.
C6_Witness ==
    /\ call.kind = "tel_lettergrepen"
    /\ call.arg = <<"k", "a", "E", "t">>
    /\ call.ret = 1

\* ---- C7
\* The tokens of a text that are markers of some category.
MarkerTokens(tokens) ==
    {tokens[i] : i \in {j \in 1..Len(tokens) :
        \E m \in 1..Len(DISCOURSE_MARKERS) : tokens[j] \in DISCOURSE_MARKERS[m].markers}}

\* C7: marker_diversity is the number of marker categories, out of five,
\* that have a marker among the tokens of the text, however often it occurs
\* and in however many categories a token is listed; it lies between 0 and 5.
C7_MarkerDiversity ==
    result.kind = "REFResult" =>
        LET tokens == tokenize(tekst)
            matched == {m \in 1..Len(DISCOURSE_MARKERS) :
                          DISCOURSE_MARKERS[m].markers
                              \cap {tokens[i] : i \in 1..Len(tokens)} # {}}
        IN  /\ Len(DISCOURSE_MARKERS) = 5
            /\ result.marker_diversity = Cardinality(matched)
            /\ result.marker_diversity \in 0..5

\* A text whose only markers are "maar" and "omdat" has been given
\* diversity 2.
C7_Witness ==
    /\ result.kind = "REFResult"
    /\ MarkerTokens(tokenize(tekst)) = {<<"m", "a", "a", "r">>, <<"o", "m", "d", "a", "t">>}
    /\ result.marker_diversity = 2

\* ------------------------------------------------ repeated analyses
\* The texts that are analysed again and again: 10 tokens of which 8 are in
\* the full lexicon, 10 tokens in one sentence, 20 tokens in two sentences.
DetTexts ==
    << Chunks[1] \o Chunks[2], Chunks[4], Chunks[4] \o Chunks[5] >>

\* The input of the last call.
LastKey == [fn |-> scorer.kind, tekst |-> tekst, target_niveau |-> scorer.target_niveau]

InitDet ==
    /\ \E f \in 1..Len(Files) : woordenlijst = _laad_woordenlijst(Files[f])
    /\ tekst = <<>>
    /\ chunks = 0
    /\ scorer = NotRun
    /\ result = NotRun
    /\ suggesties = NotRun
    /\ log = <<>>
    /\ threads = <<>>
    /\ conv = NotRun
    /\ sessie = SessionStart
    /\ call = NotRun

\* One of the texts is entered and scored by analyse_avi; the call and what
\* it returned are logged.
HerhaalAvi(t, target_niveau) ==
    /\ Len(log) < MaxCalls
    /\ tekst' = DetTexts[t]
    /\ AnalyseAviCall(DetTexts[t], target_niveau)
    /\ log' = Append(log, [key |-> LastKey', ret |-> result'])
    /\ UNCHANGED <<sessie, conv, threads, chunks, suggesties, call>>

\* One of the texts is entered and scored by analyse_ref; the call and what
\* it returned are logged.
HerhaalRef(t) ==
    /\ Len(log) < MaxCalls
    /\ tekst' = DetTexts[t]
    /\ AnalyseRefCall(DetTexts[t])
    /\ log' = Append(log, [key |-> LastKey', ret |-> result'])
    /\ UNCHANGED <<sessie, conv, threads, chunks, suggesties, call>>

NextDet ==
    \/ \E t \in 1..Len(DetTexts), target_niveau \in AnalyseTargets :
          HerhaalAvi(t, target_niveau)
    \/ \E t \in 1..Len(DetTexts) : HerhaalRef(t)

\* One analyzer serving a series of analyses of a few texts.
SpecDet == InitDet /\ [][NextDet]_vars

\* ---- C8
\* C8: two calls of analyse_avi, or of analyse_ref, with the same text (and
\* target band) on the same loaded lexicon return the same result, whatever
\* was analysed in between.
C8_Deterministic ==
    \A i, j \in 1..Len(log) :
        log[i].key = log[j].key => log[i].ret = log[j].ret

\* A text was scored, another analysis was run, and the first text was
\* scored again with a result.
C8_Witness ==
    /\ Len(log) >= 3
    /\ log[1].key = log[3].key
    /\ log[2].key # log[1].key
    /\ log[3].ret # None
    /\ log[3].ret = log[1].ret

\* ------------------------------------------- suggestions on their own
\* The features get_avi_suggesties reads from a result, scored as
\* analyse_avi scores them.
AVIResultOf(pct_frequent, gem_woordlengte) ==
    LET bilt == bilt_of(pct_frequent, gem_woordlengte)
    IN  [kind |-> "AVIResult",
         bilt |-> bilt,
         niveau |-> _bepaal_avi_niveau(bilt),
         pct_frequent |-> pct_frequent,
         gem_woordlengte |-> gem_woordlengte]

\* The features get_ref_suggesties reads from a result, scored as
\* analyse_ref scores them.
REFResultOf(gem_woordlengte, gem_zinslengte, long_sent_pct, marker_diversity) ==
    LET score == ref_score_of(long_sent_pct, marker_diversity, gem_woordlengte)
        band == ref_classify(score)
    IN  [kind |-> "REFResult",
         niveau |-> band.niveau,
         score |-> score,
         confidence |-> band.confidence,
         gem_woordlengte |-> gem_woordlengte,
         gem_zinslengte |-> gem_zinslengte,
         long_sent_ratio |-> RMul(long_sent_pct, Rat(1, 100)),
         marker_diversity |-> marker_diversity]

\* AVI results: every whole percentage from 50 and every word length in
\* tenths from 2.5 to 6.5, which covers every band and every profile value.
SugAviResults ==
    {AVIResultOf(RInt(p), Rat(w, 10)) : p \in 50..100, w \in 25..65}

\* The values of a REF feature at and just beyond the tolerance around each
\* band's typical value.
AroundTypical(field, tolerance, step) ==
    UNION {{RAdd(REF_NIVEAU_INFO_get(n)[field], RMul(RInt(d), step)) :
              d \in {-tolerance - 1, -tolerance, tolerance, tolerance + 1}} :
           n \in REF_NIVEAUS}

SugRefResults ==
    {REFResultOf(wl, zl, lsp, md) :
        wl \in AroundTypical("wl_typical", 20, Rat(1, 100)),
        zl \in AroundTypical("zl_typical", 20, Rat(1, 10)),
        lsp \in AroundTypical("long_sent_typical", 5, RInt(1)),
        md \in 0..Len(DISCOURSE_MARKERS)}

InitSug ==
    /\ woordenlijst = {}
    /\ tekst = <<>>
    /\ chunks = 0
    /\ scorer = NotRun
    /\ result \in SugAviResults \cup SugRefResults
    /\ suggesties = NotRun
    /\ log = <<>>
    /\ threads = <<>>
    /\ conv = NotRun
    /\ sessie = SessionStart
    /\ call = NotRun

NextSug ==
    \/ \E t \in AviSugTargets : GetAviSuggesties(t)
    \/ \E t \in RefSugTargets : GetRefSuggesties(t)

\* The suggestion engine applied once to a result of either scale.
SpecSug == InitSug /\ [][NextSug]_vars

\* ---- C9
\* No compared feature of an AVI result lies on the wrong side of the target
\* band's profile, in the direction the lines are emitted for.
AviNoGap(r, target) ==
    LET specs == AVI_LEVELS[avi_index(target) + 1]
    IN  IF avi_index(target) < avi_index(r.niveau)
        THEN RLe(r.gem_woordlengte, specs.gem_wlen) /\ RLe(specs.pct_freq, r.pct_frequent)
        ELSE RLe(specs.gem_wlen, r.gem_woordlengte) /\ RLe(r.pct_frequent, specs.pct_freq)

\* No compared feature of a REF result deviates from the target band's
\* typical value by more than the tolerance.
RefNoGap(r, target) ==
    LET info == REF_NIVEAU_INFO_get(target)
        lsp == RMul(r.long_sent_ratio, RInt(100))
    IN  IF niveau_order(target) < niveau_order(r.niveau)
        THEN /\ RLe(r.gem_woordlengte, RAdd(info.wl_typical, Rat(2, 10)))
             /\ RLe(r.gem_zinslengte, RAdd(info.zl_typical, RInt(2)))
             /\ RLe(lsp, RAdd(info.long_sent_typical, RInt(5)))
        ELSE /\ RLe(RSub(info.wl_typical, Rat(2, 10)), r.gem_woordlengte)
             /\ RLe(RSub(info.zl_typical, RInt(2)), r.gem_zinslengte)
             /\ RLe(RSub(info.long_sent_typical, RInt(5)), lsp)
             /\ r.marker_diversity >= 4

\* The lines of get_avi_suggesties that depend on a feature of the result.
AviFeatureLines ==
    {"Kortere woorden", "Frequentere woorden", "Langere woorden",
     "Minder frequente woorden"}

Items(ret) == {ret.items[i] : i \in 1..Len(ret.items)}

\* A suggestion call for one of the bands of its scale has returned.
SuggestedFor(fn, bands) ==
    /\ suggesties.kind = fn
    /\ suggesties.target \in bands

\* C9 as stated: for every result and target band the call returns a
\* sequence, and the sequence is empty when no gap is detected.
C9_AsStated ==
    /\ SuggestedFor("get_avi_suggesties", AVI_NIVEAUS) =>
          /\ suggesties.ret.kind = "list"
          /\ AviNoGap(result, suggesties.target) => suggesties.ret.items = <<>>
    /\ SuggestedFor("get_ref_suggesties", REF_NIVEAUS) =>
          /\ suggesties.ret.kind = "list"
          /\ RefNoGap(result, suggesties.target) => suggesties.ret.items = <<>>

\* C9: for every result and every band of its scale as target the call
\* returns a sequence, which is never empty; when no gap is detected it holds
\* only the lines that do not depend on the result's features: for REF the
\* single closing tip, for AVI the target band's own descriptive lines.
C9_NeverFailsNeverEmpty ==
    /\ SuggestedFor("get_avi_suggesties", AVI_NIVEAUS) =>
          /\ suggesties.ret.kind = "list"
          /\ suggesties.ret.items # <<>>
          /\ AviNoGap(result, suggesties.target) =>
                Items(suggesties.ret) \cap AviFeatureLines = {}
    /\ SuggestedFor("get_ref_suggesties", REF_NIVEAUS) =>
          /\ suggesties.ret.kind = "list"
          /\ suggesties.ret.items # <<>>
          /\ RefNoGap(result, suggesties.target) =>
                suggesties.ret.items \in {<<TipVereenvoudig>>, <<TipVerrijk>>}

\* A REF result within every tolerance of a lower target band was given the
\* closing tip alone.
C9_Witness ==
    /\ SuggestedFor("get_ref_suggesties", REF_NIVEAUS)
    /\ niveau_order(suggesties.target) < niveau_order(result.niveau)
    /\ RefNoGap(result, suggesties.target)
    /\ suggesties.ret = Returned(<<TipVereenvoudig>>)

\* ---- C10
\* The advisories of the simplify branches and of the enrich branches.
SimplifyAdvisories ==
    {"Kortere woorden", "Frequentere woorden", "Max lettergrepen",
     "Kortere zinnen", "Vermijd", "Minder lange zinnen", TipVereenvoudig}

EnrichAdvisories ==
    {"Langere woorden", "Minder frequente woorden", "Nieuw toegestaan",
     "Langere zinnen", "Meer lange zinnen", "Meer signaalwoorden", TipVerrijk}

\* C10: the direction is simplify for a target band below the result's,
\* enrich for one above it and refine-in-place for the result's own band:
\* a lower target gets no enrich advisory, a higher target no simplify
\* advisory, and the result's own band gets neither.
C10_ThreeDirections ==
    (\/ SuggestedFor("get_avi_suggesties", AVI_NIVEAUS)
     \/ SuggestedFor("get_ref_suggesties", REF_NIVEAUS)) =>
        LET lines == Items(suggesties.ret)
            current == IF suggesties.kind = "get_avi_suggesties"
                       THEN avi_index(result.niveau)
                       ELSE niveau_order(result.niveau)
            wanted == IF suggesties.kind = "get_avi_suggesties"
                      THEN avi_index(suggesties.target)
                      ELSE niveau_order(suggesties.target)
        IN  /\ wanted < current => lines \cap EnrichAdvisories = {}
            /\ wanted > current => lines \cap SimplifyAdvisories = {}
            /\ wanted = current =>
                  lines \cap (SimplifyAdvisories \cup EnrichAdvisories) = {}

\* ---- C11
\* The five kinds of line the documentation orders, by the feature a line's
\* heading names; 0 for a line of no such kind (word frequency, avoided or
\* newly allowed word types, word types).
PriorityKind(line) ==
    CASE line \in {"Kortere woorden", "Langere woorden"} -> 1
      [] line \in {"Kortere zinnen", "Langere zinnen"} -> 2
      [] line \in {"Max lettergrepen", "Minder lange zinnen", "Meer lange zinnen"} -> 3
      [] line = "Meer signaalwoorden" -> 4
      [] line \in {TipVereenvoudig, TipVerrijk} -> 5
      [] OTHER -> 0

\* The place of every line in the order the two functions emit them in.
EmitPlace(line) ==
    CASE line \in {"Kortere woorden", "Langere woorden"} -> 1
      [] line \in {"Frequentere woorden", "Minder frequente woorden"} -> 2
      [] line = "Max lettergrepen" -> 3
      [] line \in {"Kortere zinnen", "Langere zinnen"} -> 4
      [] line \in {"Minder lange zinnen", "Meer lange zinnen"} -> 5
      [] line = "Meer signaalwoorden" -> 6
      [] line \in {"Vermijd", "Nieuw toegestaan"} -> 7
      [] line = "Woordtypen" -> 8
      [] line \in {TipVereenvoudig, TipVerrijk} -> 9

\* A suggestion call for a band below the result's own has returned.
SuggestedLower ==
    \/ /\ SuggestedFor("get_avi_suggesties", AVI_NIVEAUS)
       /\ avi_index(suggesties.target) < avi_index(result.niveau)
    \/ /\ SuggestedFor("get_ref_suggesties", REF_NIVEAUS)
       /\ niveau_order(suggesties.target) < niveau_order(result.niveau)

\* With a target below the result's band a word-length line, if there is
\* one, is the first line.
WordLengthLeads ==
    SuggestedLower =>
        \A i \in 1..Len(suggesties.ret.items) :
            PriorityKind(suggesties.ret.items[i]) = 1 => i = 1

\* C11 as stated: the lines of the five kinds appear in the order word
\* length, sentence length, structural caps, marker diversity, generic tip,
\* and with a target below the result's band a word-length line comes first.
C11_AsStated ==
    (\/ SuggestedFor("get_avi_suggesties", AVI_NIVEAUS)
     \/ SuggestedFor("get_ref_suggesties", REF_NIVEAUS)) =>
        LET items == suggesties.ret.items
        IN  /\ \A i, j \in 1..Len(items) :
                  (i < j /\ PriorityKind(items[i]) > 0 /\ PriorityKind(items[j]) > 0)
                      => PriorityKind(items[i]) <= PriorityKind(items[j])
            /\ WordLengthLeads

\* C11: the lines always appear in the order word length, word frequency,
\* syllable cap, sentence length, share of long sentences, marker diversity,
\* avoided or newly allowed word types, word types, generic tip, each at
\* most once; with a target below the result's band a word-length line
\* comes first, so no marker-diversity line precedes it.
C11_LineOrder ==
    (\/ SuggestedFor("get_avi_suggesties", AVI_NIVEAUS)
     \/ SuggestedFor("get_ref_suggesties", REF_NIVEAUS)) =>
        LET items == suggesties.ret.items
        IN  /\ \A i, j \in 1..Len(items) :
                  i < j => EmitPlace(items[i]) < EmitPlace(items[j])
            /\ WordLengthLeads

\* A REF result above its target on every compared feature: the word-length
\* line first, then sentence length, long sentences, and the tip last.
C11_Witness ==
    /\ SuggestedLower
    /\ suggesties.ret.items = <<"Kortere woorden", "Kortere zinnen",
                                "Minder lange zinnen", TipVereenvoudig>>

\* ---- C12
\* The scorer fn has returned for the text on the page and nothing has been
\* asked of its result yet.
Returns(fn) == scorer.kind = fn /\ suggesties = NotRun

\* The lexicon of the readable word list file.
LoadedLexicon == _laad_woordenlijst(Files[Len(Files)])

\* The features of a result other than the frequency percentage and the
\* score and band computed from it.
OtherAviFeatures(r) ==
    <<r.totaal_woorden, r.gem_woordlengte, r.gem_zinslengte,
      r.lettergreep_verdeling, r.te_lange_woorden, r.te_lange_zinnen>>

OtherRefFeatures(r) ==
    <<r.totaal_woorden, r.gem_woordlengte, r.gem_zinslengte,
      r.long_sent_ratio, r.marker_diversity>>

\* C12: an analyzer whose word list could not be read, or was empty, has
\* been constructed with an empty lexicon; for every text of at least 10
\* tokens analyse_avi then reports pct_frequent = 70, for every text of at
\* least 20 tokens analyse_ref reports 65, and every other feature is what
\* the same call computes with the loaded lexicon.
C12_DegradedLexicon ==
    /\ \A f \in 1..Len(Files) :
          (Files[f].kind = "unreadable" \/ Files[f].column = <<>>)
              => _laad_woordenlijst(Files[f]) = {}
    /\ (woordenlijst = {} /\ Returns("analyse_avi")
            /\ Len(tokenize(tekst)) >= 10) =>
          /\ result.kind = "AVIResult"
          /\ result.pct_frequent = RInt(70)
          /\ OtherAviFeatures(result)
               = OtherAviFeatures(analyse_avi(LoadedLexicon, tekst, scorer.target_niveau))
    /\ (woordenlijst = {} /\ Returns("analyse_ref")
            /\ Len(tokenize(tekst)) >= 20) =>
          /\ result.kind = "REFResult"
          /\ result.pct_frequent = RInt(65)
          /\ OtherRefFeatures(result)
               = OtherRefFeatures(analyse_ref(LoadedLexicon, tekst))

\* A text of which the loaded lexicon knows every token has been scored
\* with the empty lexicon.
C12_Witness ==
    /\ woordenlijst = {}
    /\ result.kind = "AVIResult"
    /\ result.pct_frequent = RInt(70)
    /\ analyse_avi(LoadedLexicon, tekst, None).pct_frequent = RInt(100)

\* ------------------------------------------- threads sharing the analyzer
\* The texts the sessions analyse: 10 tokens, 20 tokens.
ConcTexts == <<DetTexts[1], DetTexts[3]>>

\* The bands a session asks suggestions for, by scale of its result.
ConcTargets(ret) ==
    IF ret.kind = "AVIResult" THEN {"AVI-M3", "AVI-Plus"} ELSE {"1F", "3F"}

\* A thread between calls.
Idle ==
    [pc |-> "idle", fn |-> "", tekst |-> <<>>, seen |-> {}, ret |-> NotRun,
     target |-> "", sug |-> NotRun]

InitConc ==
    /\ \E f \in 1..Len(Files) : woordenlijst = _laad_woordenlijst(Files[f])
    /\ tekst = <<>>
    /\ chunks = 0
    /\ scorer = NotRun
    /\ result = NotRun
    /\ suggesties = NotRun
    /\ log = <<>>
    /\ call = NotRun
    /\ threads = [th \in 1..NumThreads |-> Idle]
    /\ conv = NotRun
    /\ sessie = SessionStart

\* What no thread's step touches: the single-session state.
ConcFrame ==
    UNCHANGED <<tekst, chunks, scorer, result, suggesties, log, call, conv,
                sessie>>

\* A thread enters analyse_avi or analyse_ref with its session's text.
ConcStart(th, fn, t) ==
    /\ threads[th].pc = "idle"
    /\ threads' = [threads EXCEPT ![th] =
                      [Idle EXCEPT !.pc = "called", !.fn = fn, !.tekst = ConcTexts[t]]]
    /\ UNCHANGED woordenlijst
    /\ ConcFrame

\* The thread's read of self.woordenlijst, which also remembers the tokens
\* of its text in the shared lexicon.
ConcLees_learns(th) ==
    /\ threads[th].pc = "called"
    /\ threads' = [threads EXCEPT ![th].pc = "read", ![th].seen = woordenlijst]
    /\ woordenlijst' = woordenlijst
          \cup {tokenize(threads[th].tekst)[i] : i \in 1..Len(tokenize(threads[th].tekst))}
    /\ ConcFrame

\* The thread's read of self.woordenlijst: the only access of a call to the
\* analyzer's state.
ConcLees(th) ==
    /\ threads[th].pc = "called"
    /\ threads' = [threads EXCEPT ![th].pc = "read", ![th].seen = woordenlijst]
    /\ UNCHANGED woordenlijst
    /\ ConcFrame

\* The call computes its result from its text and what it read, and returns.
ConcKlaar(th) ==
    /\ threads[th].pc = "read"
    /\ threads' = [threads EXCEPT
          ![th].pc = "returned",
          ![th].ret = IF threads[th].fn = "analyse_avi"
                      THEN analyse_avi(threads[th].seen, threads[th].tekst, None)
                      ELSE analyse_ref(threads[th].seen, threads[th].tekst)]
    /\ UNCHANGED woordenlijst
    /\ ConcFrame

\* The thread asks suggestions for the result it got.
ConcSuggesties(th, target) ==
    /\ threads[th].pc = "returned"
    /\ threads[th].ret # None
    /\ target \in ConcTargets(threads[th].ret)
    /\ threads' = [threads EXCEPT
          ![th].pc = "suggested",
          ![th].target = target,
          ![th].sug = IF threads[th].ret.kind = "AVIResult"
                      THEN get_avi_suggesties(threads[th].ret, target)
                      ELSE get_ref_suggesties(threads[th].ret, target)]
    /\ UNCHANGED woordenlijst
    /\ ConcFrame

\* The session is rendered anew.
ConcTerug(th) ==
    /\ threads[th].pc \in {"returned", "suggested"}
    /\ threads' = [threads EXCEPT ![th] = Idle]
    /\ UNCHANGED woordenlijst
    /\ ConcFrame

NextConc ==
    \E th \in 1..NumThreads :
        \/ \E fn \in {"analyse_avi", "analyse_ref"}, t \in 1..Len(ConcTexts) :
              ConcStart(th, fn, t)
        \/ ConcLees(th)
        \/ ConcKlaar(th)
        \/ \E target \in {"AVI-M3", "AVI-Plus", "1F", "3F"} : ConcSuggesties(th, target)
        \/ ConcTerug(th)

\* Session threads calling the one cached analyzer in any interleaving.
SpecConc == InitConc /\ [][NextConc]_vars

\* ---- C13
\* What the thread's calls return when no other thread runs.
RunAlone(th) ==
    LET s == threads[th]
        ret == IF s.fn = "analyse_avi" THEN analyse_avi(woordenlijst, s.tekst, None)
               ELSE analyse_ref(woordenlijst, s.tekst)
    IN  /\ s.pc \in {"returned", "suggested"} => s.ret = ret
        /\ s.pc = "suggested" =>
              s.sug = IF ret.kind = "AVIResult"
                      THEN get_avi_suggesties(ret, s.target)
                      ELSE get_ref_suggesties(ret, s.target)

\* C13: in every interleaving of the threads' calls no step writes the
\* lexicon (the band and marker tables are definitions no step can write),
\* and every call that has returned returned what it returns when run alone
\* on the constructed lexicon.
C13_SharedAnalyzer ==
    /\ [][woordenlijst' = woordenlijst]_vars
    /\ [](\A th \in DOMAIN threads : RunAlone(th))

\* Two threads have returned from calls that overlapped: one holds an AVI
\* result and its suggestions, the other a REF result.
C13_Witness ==
    /\ threads # <<>>
    /\ threads[1].pc = "suggested"
    /\ threads[1].ret.kind = "AVIResult"
    /\ threads[2].pc = "returned"
    /\ threads[2].ret.kind = "REFResult"

\* ------------------------------------------------------------ converters
\* The source texts handed to a converter: 9 tokens, 10 tokens, 20 tokens.
ConvTexts == <<Chunks[1], Chunks[1] \o Chunks[2], Chunks[4] \o Chunks[5]>>

\* What the language model may answer: 1 token, 10 tokens, 20 tokens, each
\* with trailing whitespace.
LLMResponses == <<Chunks[2], Chunks[3], Chunks[4] \o Chunks[5], Chunks[5] \o Chunks[5]>>

\* The target bands a conversion is asked for; "4F" is no band.
ConvTargets(kind) ==
    IF kind = "AVIConverter" THEN {"AVI-M3", "AVI-M5", "AVI-Plus"}
    ELSE {"1F", "2F", "3F", "4F"}

\* The result dictionary convert starts from.
EmptyConvResult ==
    [final_text |-> <<>>, success |-> FALSE, source_analysis |-> None,
     converted_analysis |-> None, validatie_problemen |-> <<>>]

InitConv ==
    /\ \E f \in 1..Len(Files) : woordenlijst = _laad_woordenlijst(Files[f])
    /\ tekst = <<>>
    /\ chunks = 0
    /\ scorer = NotRun
    /\ result = NotRun
    /\ suggesties = NotRun
    /\ log = <<>>
    /\ call = NotRun
    /\ threads = <<>>
    /\ conv = NotRun
    /\ sessie = SessionStart

\* What no step of a converter touches.
ConvFrame ==
    UNCHANGED <<woordenlijst, tekst, chunks, scorer, result, suggesties, log, call,
                threads, sessie>>

\* convert(source_text, target_niveau) is entered on a converter that has,
\* or has not, an API client.
ConvertStart(kind, client, t, target_niveau) ==
    /\ IF conv = NotRun THEN TRUE ELSE conv.pc \in {"returned", "raised"}
    /\ target_niveau \in ConvTargets(kind)
    /\ conv' = [kind |-> kind, pc |-> "client", client |-> client,
                source_text |-> ConvTexts[t], target_niveau |-> target_niveau,
                llm_calls |-> 0, direction |-> "", ret |-> EmptyConvResult]
    /\ ConvFrame

\* if not self.client: return result
ConvertClient ==
    /\ conv # NotRun
    /\ conv.pc = "client"
    /\ conv' = [conv EXCEPT !.pc = IF conv.client THEN "analyse" ELSE "returned"]
    /\ ConvFrame

\* The source analysis whose missing result is not tested.
ConvertAnalyse_unchecked ==
    /\ conv # NotRun
    /\ conv.pc = "analyse"
    /\ conv' = [conv EXCEPT
                   !.pc = "llm",
                   !.ret.source_analysis =
                       IF conv.kind = "AVIConverter"
                       THEN analyse_avi(woordenlijst, conv.source_text, None)
                       ELSE analyse_ref(woordenlijst, conv.source_text)]
    /\ ConvFrame

\* The source text is analysed; without a result convert returns, and the
\* REF converter raises KeyError on a target that is no band.
ConvertAnalyse ==
    /\ conv # NotRun
    /\ conv.pc = "analyse"
    /\ LET source_analysis ==
              IF conv.kind = "AVIConverter"
              THEN analyse_avi(woordenlijst, conv.source_text, None)
              ELSE analyse_ref(woordenlijst, conv.source_text)
       IN  conv' =
              IF source_analysis = None THEN [conv EXCEPT !.pc = "returned"]
              ELSE IF conv.kind = "REFConverter" /\ conv.target_niveau \notin REF_NIVEAUS
              THEN [conv EXCEPT !.pc = "raised",
                                !.ret.source_analysis = source_analysis]
              ELSE [conv EXCEPT
                       !.pc = "llm",
                       !.ret.source_analysis = source_analysis,
                       !.direction = conv_direction(conv.kind, conv.target_niveau,
                                                    source_analysis)]
    /\ ConvFrame

\* self.client.messages.create(...) answers with a text.
ConvertLLM(r) ==
    /\ conv # NotRun
    /\ conv.pc = "llm"
    /\ conv' = [conv EXCEPT !.pc = "validate",
                            !.llm_calls = conv.llm_calls + 1,
                            !.ret.final_text = Strip(LLMResponses[r])]
    /\ ConvFrame

\* self.client.messages.create(...) raises; the except clause logs it.
ConvertLLMFout ==
    /\ conv # NotRun
    /\ conv.pc = "llm"
    /\ conv' = [conv EXCEPT !.pc = "returned", !.llm_calls = conv.llm_calls + 1]
    /\ ConvFrame

\* The validation of AVIConverter.convert on the analysis of the answer.
avi_validatie(ret, converted_analysis, target_niveau, target_tijd_min) ==
    LET target_specs == AVI_LEVELS[avi_index(target_niveau) + 1]
        bilt_min == IF Falsy(target_specs.bilt_min) THEN RInt(0) ELSE target_specs.bilt_min
        bilt_max == IF Falsy(target_specs.bilt_max) THEN RInt(100) ELSE target_specs.bilt_max
        bilt_ok == RLe(bilt_min, converted_analysis.bilt)
                     /\ RLe(converted_analysis.bilt, bilt_max)
        target_woorden == DOELWOORDEN_get(target_niveau, target_tijd_min)
        woorden_ok == 5 * Abs(converted_analysis.totaal_woorden - target_woorden)
                         <= target_woorden
        problemen == Opt(~bilt_ok, "BILT") \o Opt(~woorden_ok, "Woordenaantal")
    IN  [ret EXCEPT !.converted_analysis = converted_analysis,
                    !.validatie_problemen = problemen,
                    !.success = bilt_ok \/ problemen = <<>>]

\* The validation of REFConverter.convert on the analysis of the answer.
ref_validatie(ret, converted_analysis, target_niveau) ==
    [ret EXCEPT !.converted_analysis = converted_analysis,
                !.validatie_problemen =
                    Opt(converted_analysis.niveau # target_niveau, "Niveau"),
                !.success = TRUE]

\* The answer is analysed and validated, and convert returns.
ConvertValideer ==
    /\ conv # NotRun
    /\ conv.pc = "validate"
    /\ LET converted_analysis ==
              IF conv.kind = "AVIConverter"
              THEN analyse_avi(woordenlijst, conv.ret.final_text, Str(conv.target_niveau))
              ELSE analyse_ref(woordenlijst, conv.ret.final_text)
       IN  conv' =
              [conv EXCEPT
                 !.pc = "returned",
                 !.ret = IF converted_analysis = None THEN conv.ret
                         ELSE IF conv.kind = "AVIConverter"
                         THEN avi_validatie(conv.ret, converted_analysis,
                                            conv.target_niveau, 1)
                         ELSE ref_validatie(conv.ret, converted_analysis,
                                            conv.target_niveau)]
    /\ ConvFrame

NextConv ==
    \/ \E kind \in {"AVIConverter", "REFConverter"}, client \in BOOLEAN,
          t \in 1..Len(ConvTexts), target_niveau \in {"AVI-M3", "AVI-M5", "AVI-Plus",
                                                      "1F", "2F", "3F", "4F"} :
          ConvertStart(kind, client, t, target_niveau)
    \/ ConvertClient
    \/ ConvertAnalyse
    \/ \E r \in 1..Len(LLMResponses) : ConvertLLM(r)
    \/ ConvertLLMFout
    \/ ConvertValideer

\* The two converters on one analyzer, the language model answering
\* anything or failing.
SpecConv == InitConv /\ [][NextConv]_vars

\* ---- C14
\* What the scorer of the converter's scale returns for its source text.
SourceAnalysis ==
    IF conv.kind = "AVIConverter"
    THEN analyse_avi(woordenlijst, conv.source_text, None)
    ELSE analyse_ref(woordenlijst, conv.source_text)

\* C14: in both converters the language model is requested only after the
\* source text was analysed with a result; when the source analysis yields
\* no result the model is never requested and the record convert returns has
\* success = False, an empty final_text and neither analysis.
C14_NoResultNoLLM ==
    conv # NotRun =>
        /\ (conv.pc \in {"llm", "validate"} \/ conv.llm_calls > 0) =>
              /\ SourceAnalysis # None
              /\ conv.ret.source_analysis = SourceAnalysis
        /\ SourceAnalysis = None =>
              /\ conv.llm_calls = 0
              /\ conv.ret.success = FALSE
              /\ conv.ret.final_text = <<>>
              /\ conv.ret.source_analysis = None
              /\ conv.ret.converted_analysis = None

\* A converter with a client has returned from a source text too short to
\* analyse.
C14_Witness ==
    /\ conv # NotRun
    /\ conv.client
    /\ conv.pc = "returned"
    /\ SourceAnalysis = None

\* ---- C15
\* C15: the AVI_LEVELS table _bepaal_avi_niveau classifies a score with has
\* eleven entries in ascending order: the first has no bilt_min, the last no
\* bilt_max, every other bound is present with bilt_min < bilt_max, and each
\* entry's bilt_max is the next entry's bilt_min, so the intervals neither
\* overlap nor leave a gap.
C15_TableContiguous ==
    call.kind = "_bepaal_avi_niveau" =>
    LET n == Len(AVI_LEVELS)
    IN  /\ n = 11
        /\ AVI_LEVELS[1].bilt_min = None
        /\ AVI_LEVELS[n].bilt_max = None
        /\ \A i \in 1..n :
              /\ i > 1 => AVI_LEVELS[i].bilt_min # None
              /\ i < n => AVI_LEVELS[i].bilt_max # None
              /\ (i > 1 /\ i < n) => RLt(AVI_LEVELS[i].bilt_min, AVI_LEVELS[i].bilt_max)
              /\ i < n => AVI_LEVELS[i].bilt_max = AVI_LEVELS[i + 1].bilt_min
        /\ \A i, j \in 1..n : i # j => AVI_LEVELS[i].niveau # AVI_LEVELS[j].niveau

\* A score on the bound two neighbouring bands share has been classified
\* into the upper one.
C15_Witness ==
    /\ call.kind = "_bepaal_avi_niveau"
    /\ \E i \in 2..(Len(AVI_LEVELS) - 1) :
          /\ call.arg = AVI_LEVELS[i].bilt_max
          /\ call.arg = AVI_LEVELS[i + 1].bilt_min
          /\ call.ret = AVI_LEVELS[i + 1].niveau

\* ---- C16
\* a exceeds b by more than d.
ExceedsBy(a, b, d) == RLt(RAdd(b, d), a)

Within(a, b, d) == RLe(a, RAdd(b, d)) /\ RLe(b, RAdd(a, d))

\* C17: get_avi_suggesties emits no word-length advisory when the result's
\* gem_woordlengte is within 0.2 characters of the target band's gem_wlen.
C17_AviTolerance ==
    SuggestedFor("get_avi_suggesties", AVI_NIVEAUS) =>
        (Within(result.gem_woordlengte,
                AVI_LEVELS[avi_index(suggesties.target) + 1].gem_wlen,
                Rat(2, 10))
           => Items(suggesties.ret)
                \cap {"Kortere woorden", "Langere woorden"} = {})

\* ---- C18
\* The pieces of text t between the runs of sentence enders, as pairs of
\* first and last index: the maximal stretches without a sentence ender.
Pieces(t) ==
    {p \in (1..Len(t)) \X (1..Len(t)) :
        /\ p[1] <= p[2]
        /\ \A k \in p[1]..p[2] : t[k] \notin SentenceEnd
        /\ p[1] = 1 \/ t[p[1] - 1] \in SentenceEnd
        /\ p[2] = Len(t) \/ t[p[2] + 1] \in SentenceEnd}

\* The pieces of t trimmed of surrounding white space, of those the ones
\* longer than five characters.
KeptPieces(t) ==
    {q \in (1..Len(t)) \X (1..Len(t)) :
        /\ q[2] - q[1] + 1 > 5
        /\ t[q[1]] \notin Whitespace
        /\ t[q[2]] \notin Whitespace
        /\ \E p \in Pieces(t) :
              /\ p[1] <= q[1]
              /\ q[2] <= p[2]
              /\ \A k \in p[1]..(q[1] - 1) : t[k] \in Whitespace
              /\ \A k \in (q[2] + 1)..p[2] : t[k] \in Whitespace}

\* C18: split_sentences returns, in text order, exactly the pieces between
\* the runs of '.', '!' and '?', each trimmed of surrounding white space, of
\* those the ones longer than 5 characters; no returned sentence is empty,
\* has 5 characters or fewer, starts or ends with white space, or contains
\* '.', '!' or '?'.
C18_SplitSentences ==
    call.kind = "split_sentences" =>
        LET t == call.arg
            kept == KeptPieces(t)
        IN  /\ Len(call.ret) = Cardinality(kept)
            /\ \A q \in kept :
                  call.ret[1 + Cardinality({r \in kept : r[1] < q[1]})]
                    = SubSeq(t, q[1], q[2])
            /\ \A i \in 1..Len(call.ret) :
                  LET s == call.ret[i]
                  IN  /\ Len(s) > 5
                      /\ s[1] \notin Whitespace
                      /\ s[Len(s)] \notin Whitespace
                      /\ \A k \in 1..Len(s) : s[k] \notin SentenceEnd

\* A text with a piece of exactly five characters, which was dropped, a
\* sentence ender, and a piece of six characters after white space, which was
\* returned trimmed.
C18_Witness ==
    /\ call.kind = "split_sentences"
    /\ call.arg = <<"a", "b", "c", "d", "e", "!", " ", "z", "i", "n", "n", "e", "n">>
    /\ call.ret = <<<<"z", "i", "n", "n", "e", "n">>>>

\* ---- C19
\* The scorer fn returns for a text that has no sentence for
\* split_sentences and at least minimum tokens.
NoSentences(fn, minimum) ==
    /\ Returns(fn)
    /\ split_sentences(tekst) = <<>>
    /\ Len(tokenize(tekst)) >= minimum

\* C19: when split_sentences yields no sentence for a text that meets the
\* token minimum, both scorers return a result in which the whole text is one
\* sentence: gem_zinslengte = totaal_woorden = the number of tokens, and from
\* analyse_ref long_sent_ratio is 1 if totaal_woorden > 20 and 0 otherwise.
C19_ZeroSentenceFallback ==
    /\ NoSentences("analyse_avi", 10) =>
          /\ result.kind = "AVIResult"
          /\ result.totaal_woorden = Len(tokenize(tekst))
          /\ result.gem_zinslengte = RInt(result.totaal_woorden)
    /\ NoSentences("analyse_ref", 20) =>
          /\ result.kind = "REFResult"
          /\ result.totaal_woorden = Len(tokenize(tekst))
          /\ result.gem_zinslengte = RInt(result.totaal_woorden)
          /\ result.long_sent_ratio
               = (IF result.totaal_woorden > 20 THEN RInt(1) ELSE RInt(0))

\* analyse_ref has scored a text of more than 20 tokens without a sentence
\* as one long sentence.
C19_Witness ==
    /\ NoSentences("analyse_ref", 20)
    /\ result.kind = "REFResult"
    /\ result.totaal_woorden = 21
    /\ result.gem_zinslengte = RInt(21)
    /\ result.long_sent_ratio = RInt(1)

\* ---- C20
\* The lexicons an analyzer is compared under: the one of every file, the
\* empty one among them, and one holding words of the texts only.
Lexicons ==
    {_laad_woordenlijst(Files[i]) : i \in 1..Len(Files)}
        \cup {{}, {<<"b", "o", "o", "m">>, <<"l", "a", "n", "g", "e">>}}

\* Two outcomes of analyse_ref agree on everything but pct_frequent.
SameButPctFrequent(r1, r2) ==
    IF r1 = None \/ r2 = None THEN r1 = r2
    ELSE /\ r1.score = r2.score
         /\ r1.niveau = r2.niveau
         /\ r1.confidence = r2.confidence
         /\ [r1 EXCEPT !.pct_frequent = r2.pct_frequent] = r2

\* C20: for any text and any two lexicons, the empty one included,
\* analyse_ref returns the same score, band and confidence; only pct_frequent
\* may differ.
C20_ScoreIgnoresLexicon ==
    Returns("analyse_ref") =>
        /\ result = analyse_ref(woordenlijst, tekst)
        /\ \A lexicon \in Lexicons :
              SameButPctFrequent(result, analyse_ref(lexicon, tekst))

\* A text was scored under a loaded lexicon, and under the empty lexicon its
\* pct_frequent is another while the score is the same.
C20_Witness ==
    /\ scorer.kind = "analyse_ref"
    /\ result.kind = "REFResult"
    /\ woordenlijst # {}
    /\ analyse_ref({}, tekst).pct_frequent # result.pct_frequent
    /\ analyse_ref({}, tekst).score = result.score

\* ------------------------------------- every scorer on a list of texts
\* The texts each scorer is applied to: two sentences of 10 tokens with
\* repeated words; 10 tokens and no sentence; one sentence of 20 tokens and
\* more than 80 characters; one sentence of 21 tokens; sentences of 10 and 20
\* tokens; sentences of 10 and 21 tokens; 21 tokens and no sentence; 10
\* tokens with a marker; 20 tokens ending in the marker of two words; one
\* token.
AnalyseTexts ==
    << Chunks[4] \o Chunks[4],
       Chunks[3],
       Chunks[5] \o Chunks[5],
       Chunks[5] \o Chunks[5] \o Chunks[2],
       Chunks[4] \o Chunks[5] \o Chunks[5],
       Chunks[4] \o Chunks[5] \o Chunks[5] \o Chunks[2],
       Chunks[3] \o Chunks[3] \o Chunks[2],
       Chunks[1] \o Chunks[2],
       Chunks[1] \o Chunks[1] \o Chunks[6],
       Chunks[2] >>

\* The target_niveau arguments of analyse_avi: none, the empty string, every
\* band, and a name that is no band.
AllAnalyseTargets ==
    {None, Str("")} \cup {Str(n) : n \in AVI_NIVEAUS} \cup {Str("AVI-X")}

InitAnalyse ==
    /\ \E f \in 1..Len(Files) : woordenlijst = _laad_woordenlijst(Files[f])
    /\ \E t \in 1..Len(AnalyseTexts) : tekst = AnalyseTexts[t]
    /\ chunks = 0
    /\ scorer = NotRun
    /\ result = NotRun
    /\ suggesties = NotRun
    /\ log = <<>>
    /\ threads = <<>>
    /\ conv = NotRun
    /\ sessie = SessionStart
    /\ call = NotRun

NextAnalyse ==
    \/ \E target_niveau \in AllAnalyseTargets : AnalyseAvi(target_niveau)
    \/ AnalyseRef

\* Each scorer applied once to each of the texts, for every target band.
SpecAnalyse == InitAnalyse /\ [][NextAnalyse]_vars

\* ---- C21
\* The index of the first occurrence of woord among the tokens.
FirstIndex(tokens, woord) ==
    CHOOSE i \in 1..Len(tokens) :
        tokens[i] = woord /\ \A j \in 1..(i - 1) : tokens[j] # woord

\* The cap named field the target band of the analysis declares, or None:
\* without a target, for an unknown band, or when the band declares none.
DeclaredCap(target_niveau, field) ==
    IF FalsyStr(target_niveau) THEN None
    ELSE LET cap == AVI_KENMERKEN_get(target_niveau.s)[field]
         IN  IF Falsy(cap) THEN None ELSE cap

\* C21: when analyse_avi is given a target band that declares a cap on the
\* syllables per word, te_lange_woorden holds exactly the distinct tokens
\* whose tel_lettergrepen exceeds the cap, each once, in order of first
\* occurrence, paired with its syllable count; without a target, or with a
\* target that declares no cap, te_lange_woorden is empty.
C21_TeLangeWoorden ==
    (Returns("analyse_avi") /\ result.kind = "AVIResult") =>
        LET tokens == tokenize(tekst)
            cap == DeclaredCap(scorer.target_niveau, "max_lettergrepen")
            lijst == result.te_lange_woorden
        IN  IF cap = None THEN lijst = <<>>
            ELSE /\ \A i \in 1..Len(lijst) :
                       /\ \E k \in 1..Len(tokens) : tokens[k] = lijst[i].woord
                       /\ lijst[i].lg = tel_lettergrepen(lijst[i].woord)
                       /\ lijst[i].lg > cap.num
                 /\ \A k \in 1..Len(tokens) :
                       tel_lettergrepen(tokens[k]) > cap.num
                         => \E i \in 1..Len(lijst) : lijst[i].woord = tokens[k]
                 /\ \A i, j \in 1..Len(lijst) :
                       i < j => FirstIndex(tokens, lijst[i].woord)
                                  < FirstIndex(tokens, lijst[j].woord)

\* A text in which words of two and three syllables occur twice was analysed
\* for a band with a cap of one syllable: each is listed once, in order.
C21_Witness ==
    /\ Returns("analyse_avi")
    /\ result.kind = "AVIResult"
    /\ scorer.target_niveau = Str("AVI-M3")
    /\ result.te_lange_woorden
         = <<[woord |-> <<"o", "m", "d", "a", "t">>, lg |-> 2],
             [woord |-> <<"c", "o", "m", "p", "u", "t", "e", "r">>, lg |-> 3]>>
    /\ Cardinality({k \in 1..Len(tokenize(tekst)) :
                       tokenize(tekst)[k] = <<"o", "m", "d", "a", "t">>}) = 2

\* ---- C22
\* The sentence lengths of xs that exceed cap, in order.
Exceeding(xs, cap) == SelectSeq(xs, LAMBDA l : l > cap)

\* The first 80 characters of s.
Truncated(s) == SubSeq(s, 1, IF Len(s) < 80 THEN Len(s) ELSE 80)

\* C22: when the target band of analyse_avi declares a cap on the words per
\* sentence, te_lange_zinnen lists exactly the sentences whose token count
\* exceeds the cap, the whole-text sentence of the zero-sentence fallback
\* included: its word counts are the sentence lengths behind gem_zinslengte
\* that exceed the cap, in order, and each text is at most 80 characters, the
\* start of its sentence; without such a cap the list is empty.
C22_TeLangeZinnen ==
    (Returns("analyse_avi") /\ result.kind = "AVIResult") =>
        LET sentences == split_sentences(tekst)
            sentence_lengths ==
                sentence_lengths_of(sentences, result.totaal_woorden)
            cap == DeclaredCap(scorer.target_niveau, "max_zinslengte")
            lijst == result.te_lange_zinnen
        IN  IF cap = None THEN lijst = <<>>
            ELSE /\ [i \in 1..Len(lijst) |-> lijst[i].woorden]
                      = Exceeding(sentence_lengths, cap.num)
                 /\ \A i \in 1..Len(lijst) : Len(lijst[i].tekst) <= 80
                 /\ sentences # <<>> =>
                       LET long == SelectSeq(sentences,
                                       LAMBDA s : Len(tokenize(s)) > cap.num)
                       IN  /\ Len(lijst) = Len(long)
                           /\ \A i \in 1..Len(lijst) :
                                 lijst[i].tekst = Truncated(long[i])

\* ---- C23
\* The sum of the values of dict at keys.
RECURSIVE SumValues(_, _)
SumValues(dict, keys) ==
    IF keys = {} THEN 0
    ELSE LET k == CHOOSE x \in keys : TRUE
         IN  dict[k] + SumValues(dict, keys \ {k})

\* C23: in every AVI result lettergreep_verdeling is a histogram over all
\* tokens, repeats counted: its keys are the syllable counts that occur, the
\* value at a key is the number of tokens with that tel_lettergrepen, every
\* key is at least 1, and the values sum to totaal_woorden.
C23_Histogram ==
    (Returns("analyse_avi") /\ result.kind = "AVIResult") =>
        LET tokens == tokenize(tekst)
            verdeling == result.lettergreep_verdeling
        IN  /\ \A k \in DOMAIN verdeling :
                  /\ k >= 1
                  /\ verdeling[k] >= 1
                  /\ verdeling[k]
                       = Cardinality({i \in 1..Len(tokens) :
                                         tel_lettergrepen(tokens[i]) = k})
            /\ \A i \in 1..Len(tokens) :
                  tel_lettergrepen(tokens[i]) \in DOMAIN verdeling
            /\ SumValues(verdeling, DOMAIN verdeling) = result.totaal_woorden
            /\ result.totaal_woorden = Len(tokens)

\* A text of twenty tokens in which every word occurs at least twice was
\* analysed: 16 tokens of one syllable, 2 of two, 2 of three.
C23_Witness ==
    /\ Returns("analyse_avi")
    /\ result.kind = "AVIResult"
    /\ tekst = AnalyseTexts[1]
    /\ DOMAIN result.lettergreep_verdeling = {1, 2, 3}
    /\ result.lettergreep_verdeling[1] = 16
    /\ result.lettergreep_verdeling[2] = 2
    /\ result.lettergreep_verdeling[3] = 2

\* ---- C24
\* C24: in every REF result long_sent_ratio is the fraction of the sentences
\* (the whole text when there is none) that have strictly more than 20
\* tokens, so it lies between 0 and 1, and the score is -2.3972
\* + 0.0208 * (long_sent_ratio * 100) + 0.3423 * marker_diversity
\* + 0.5405 * gem_woordlengte.
C24_LongSentRatioAndScore ==
    (Returns("analyse_ref") /\ result.kind = "REFResult") =>
        LET sentences == split_sentences(tekst)
            lengths == IF sentences = <<>> THEN <<Len(tokenize(tekst))>>
                       ELSE [i \in 1..Len(sentences) |-> Len(tokenize(sentences[i]))]
            long == {i \in 1..Len(lengths) : lengths[i] >= 21}
        IN  /\ result.long_sent_ratio = Rat(Cardinality(long), Len(lengths))
            /\ RLe(RInt(0), result.long_sent_ratio)
            /\ RLe(result.long_sent_ratio, RInt(1))
            /\ result.score
                 = RAdd(Rat(-23972, 10000),
                        RAdd(RMul(Rat(208, 10000),
                                  RMul(result.long_sent_ratio, RInt(100))),
                             RAdd(RMul(Rat(3423, 10000),
                                       RInt(result.marker_diversity)),
                                  RMul(Rat(5405, 10000), result.gem_woordlengte))))

\* A text of a sentence of 10 and a sentence of exactly 20 tokens was scored
\* with no long sentence; its three marker categories and its word length
\* of 103/30 put the score at 233/480.
C24_Witness ==
    /\ Returns("analyse_ref")
    /\ result.kind = "REFResult"
    /\ tekst = AnalyseTexts[5]
    /\ result.long_sent_ratio = RInt(0)
    /\ result.gem_zinslengte = RInt(15)
    /\ result.score = Rat(233, 480)

\* ------------------------------------------------------------- the quiz
\* Most questions in a quiz.
MaxVragen == 2

\* str.upper() on one character.
UpperChar(c) ==
    IF \E i \in 1..26 : LowerLetters[i] = c
    THEN UpperLetters[CHOOSE i \in 1..26 : LowerLetters[i] = c]
    ELSE c

\* str.upper()
Upper(s) == [i \in 1..Len(s) |-> UpperChar(s[i])]

\* A key a question dict does not have.
Absent == [kind |-> "absent"]

\* vraag.get('correct', ''): the value under the key, None for a JSON null.
vraag_get_correct(vraag) ==
    IF vraag.correct = Absent THEN Str(<<>>) ELSE vraag.correct

\* round() of a non-negative quotient: to the nearest integer, a half to the
\* even one.
Round(r) ==
    LET q == r.num \div r.den
        rest == r.num % r.den
    IN  IF 2 * rest < r.den THEN q
        ELSE IF 2 * rest > r.den THEN q + 1
        ELSE IF q % 2 = 0 THEN q ELSE q + 1

\* gekozen.upper() == vraag.get('correct', '').upper()
is_correct_of(gekozen, correct) == Upper(gekozen) = Upper(correct)

\* The loop of beoordeel_mc from question i (counted from 0) on; .upper() on
\* a correct key that is None raises.
RECURSIVE BeoordeelLoop(_, _, _, _, _)
BeoordeelLoop(mc_vragen, antwoorden, i, score, resultaten) ==
    IF i >= Len(mc_vragen)
    THEN [kind |-> "mc_resultaat",
          score |-> score,
          max_score |-> Len(mc_vragen),
          percentage |-> IF mc_vragen # <<>>
                         THEN Round(RMul(Rat(score, Len(mc_vragen)), RInt(100)))
                         ELSE 0,
          resultaten |-> resultaten]
    ELSE LET vraag == mc_vragen[i + 1]
             gekozen == DictGet(antwoorden, i, <<>>)
             correct == vraag_get_correct(vraag)
         IN  IF correct = None THEN Raised("AttributeError")
             ELSE LET is_correct == is_correct_of(gekozen, correct.s)
                  IN  BeoordeelLoop(mc_vragen, antwoorden, i + 1,
                          IF is_correct THEN score + 1 ELSE score,
                          Append(resultaten,
                                 [vraagnummer |-> i + 1,
                                  gekozen |-> gekozen,
                                  correct_antwoord |-> correct.s,
                                  is_correct |-> is_correct]))

\* ToetsGenerator.beoordeel_mc
beoordeel_mc(mc_vragen, antwoorden) ==
    BeoordeelLoop(mc_vragen, antwoorden, 0, 0, <<>>)

\* ToetsGenerator.genereer_toets, given whether there is a client and the
\* questions _genereer_mc_vragen came back with (none when the call failed).
genereer_toets(client, text, niveau, mc_vragen) ==
    IF ~client
    THEN [kind |-> "toets", mc_vragen |-> <<>>, success |-> FALSE,
          error |-> Str("Geen API key")]
    ELSE [kind |-> "toets", mc_vragen |-> mc_vragen,
          success |-> Len(mc_vragen) > 0,
          error |-> IF mc_vragen # <<>> THEN None
                    ELSE Str("Kon geen vragen genereren"),
          tekst |-> text, niveau |-> niveau]

\* ToetsGenerator.genereer_rapport: the report, or the exception beoordeel_mc
\* raised.  The feedback on the open questions is left out.
genereer_rapport(toets, mc_antwoorden) ==
    LET mc_resultaat == beoordeel_mc(toets.mc_vragen, mc_antwoorden)
    IN  IF mc_resultaat.kind = "raise" THEN mc_resultaat
        ELSE [kind |-> "rapport", niveau |-> toets.niveau,
              mc_resultaat |-> mc_resultaat]

\* The values the 'correct' key of a generated question may have: a capital,
\* a small letter, none, null.
CorrectKeys == {Str(<<"B">>), Str(<<"a">>), Absent, None}

RECURSIVE VragenUpTo(_, _)
VragenUpTo(n, keys) ==
    IF n = 0 THEN {<<>>}
    ELSE LET shorter == VragenUpTo(n - 1, keys)
         IN  shorter \cup {Append(v, [correct |-> k]) : v \in shorter, k \in keys}

\* The question lists the language model may come back with, the empty one
\* of a failed call included.
Vragen == VragenUpTo(MaxVragen, CorrectKeys)

\* The options of the radio of a question the user picks from.
RadioOptions == {<<"A">>, <<"B">>}

\* reset_toets()
reset_toets(s) ==
    [s EXCEPT !.toets_data = None, !.toets_fase = None, !.rapport = None]

\* What no step of the quiz touches.
ToetsFrame ==
    UNCHANGED <<woordenlijst, tekst, chunks, scorer, result, suggesties, log, call,
                threads, conv>>

\* The user picks the other mode: on_change runs reset_toets.
ModeChange ==
    /\ sessie' = reset_toets([sessie EXCEPT
                    !.mode = IF sessie.mode = "AVI" THEN "Referentie" ELSE "AVI"])
    /\ ToetsFrame

\* The normal page of the REF mode is the one rendered.
NormalPage ==
    /\ sessie.mode = "Referentie"
    /\ sessie.toets_fase # Str("maken")
    /\ sessie.toets_fase # Str("rapport")

\* The quiz button enters the quiz whatever genereer_toets came back with.
ToetsBtn_unchecked(api_key, niveau, mc_vragen) ==
    /\ NormalPage
    /\ sessie' = IF ~api_key THEN sessie
                 ELSE [sessie EXCEPT
                          !.toets_data = genereer_toets(TRUE, <<>>, niveau, mc_vragen),
                          !.toets_fase = Str("maken")]
    /\ ToetsFrame

\* The quiz button on the normal REF page, enabled by a text with a result
\* of band niveau: without an API key an error is shown; otherwise the quiz
\* is generated and, when that succeeded, stored and entered.
ToetsBtn(api_key, niveau, mc_vragen) ==
    /\ NormalPage
    /\ sessie' = IF ~api_key THEN sessie
                 ELSE LET toets == genereer_toets(TRUE, <<>>, niveau, mc_vragen)
                      IN  IF toets.success
                          THEN [sessie EXCEPT !.toets_data = toets,
                                              !.toets_fase = Str("maken")]
                          ELSE sessie
    /\ ToetsFrame

\* "Terug" on the quiz page.
Terug ==
    /\ sessie.mode = "Referentie"
    /\ sessie.toets_fase = Str("maken")
    /\ sessie' = reset_toets(sessie)
    /\ ToetsFrame

\* "Indienen" on the quiz page with an answer picked for every question; when
\* genereer_rapport raises, the run ends before anything is stored.
Indienen(mc_answers) ==
    /\ sessie.mode = "Referentie"
    /\ sessie.toets_fase = Str("maken")
    /\ DOMAIN mc_answers = 0..(Len(sessie.toets_data.mc_vragen) - 1)
    /\ LET rapport == genereer_rapport(sessie.toets_data, mc_answers)
       IN  sessie' = IF rapport.kind = "raise" THEN sessie
                     ELSE [sessie EXCEPT !.rapport = rapport,
                                         !.toets_fase = Str("rapport")]
    /\ ToetsFrame

\* "Nieuwe toets" on the report page.
NieuweToets ==
    /\ sessie.mode = "Referentie"
    /\ sessie.toets_fase = Str("rapport")
    /\ sessie' = reset_toets(sessie)
    /\ ToetsFrame

InitToets ==
    /\ woordenlijst = {}
    /\ tekst = <<>>
    /\ chunks = 0
    /\ scorer = NotRun
    /\ result = NotRun
    /\ suggesties = NotRun
    /\ log = <<>>
    /\ threads = <<>>
    /\ conv = NotRun
    /\ call = NotRun
    /\ sessie = SessionStart

NextToets ==
    \/ ModeChange
    \/ \E api_key \in BOOLEAN, niveau \in REF_NIVEAUS, mc_vragen \in Vragen :
          ToetsBtn(api_key, niveau, mc_vragen)
    \/ Terug
    \/ \E mc_answers \in UNION {[0..(n - 1) -> RadioOptions] : n \in 1..MaxVragen} :
          Indienen(mc_answers)
    \/ NieuweToets

\* The quiz phases of one session.
SpecToets == InitToets /\ [][NextToets]_vars

\* ---- C25
\* The quiz phase and what it stands on, in one state of the session.
PhaseConsistent ==
    /\ sessie.toets_fase \in {None, Str("maken"), Str("rapport")}
    /\ sessie.toets_fase = Str("maken") =>
          /\ sessie.toets_data # None
          /\ sessie.toets_data.kind = "toets"
          /\ sessie.toets_data.success
    /\ sessie.toets_fase = Str("rapport") =>
          /\ sessie.rapport # None
          /\ sessie.rapport.kind = "rapport"

\* How the quiz phase changes in one step of the session.
PhaseStep ==
    /\ (sessie'.toets_fase = Str("maken") /\ sessie.toets_fase # Str("maken")) =>
          /\ sessie.toets_fase = None
          /\ sessie'.toets_data.success
    /\ (sessie'.toets_fase = Str("rapport") /\ sessie.toets_fase # Str("rapport")) =>
          sessie.toets_fase = Str("maken")
    /\ (sessie'.toets_fase = None /\ sessie.toets_fase # None) =>
          /\ sessie'.toets_data = None
          /\ sessie'.rapport = None
    /\ sessie'.mode # sessie.mode =>
          /\ sessie'.toets_data = None
          /\ sessie'.toets_fase = None
          /\ sessie'.rapport = None

\* C25: after any sequence of mode changes, quiz generations, submits and
\* back/new-quiz clicks, toets_fase is None, 'maken' or 'rapport'; 'maken'
\* implies toets_data is a generated quiz with success = True; 'rapport'
\* implies rapport is set; 'maken' is entered only from None with a
\* successful quiz, 'rapport' only from 'maken'; and every reset, the one of
\* a mode change included, leaves toets_data, toets_fase and rapport None.
C25_QuizPhase == [](PhaseConsistent) /\ [][PhaseStep]_vars

\* A quiz of two questions has been generated, made and submitted: the
\* report is on the page.
C25_Witness ==
    /\ sessie.toets_fase = Str("rapport")
    /\ sessie.rapport # None
    /\ sessie.rapport.mc_resultaat.max_score = 2
    /\ sessie.toets_data.success

\* ---- C26
\* C26: AVIConverter.convert returns success = True only when
\* validatie_problemen is empty, that is, only when the converted text passed
\* both the BILT-range check and the word-count check (within 20% of the
\* target word count).
C26_AviSuccessNoProblems ==
    (conv # NotRun /\ conv.kind = "AVIConverter" /\ conv.pc = "returned"
        /\ conv.ret.success) =>
        /\ conv.ret.validatie_problemen = <<>>
        /\ conv.ret.converted_analysis # None
        /\ LET target_woorden == DOELWOORDEN_get(conv.target_niveau, 1)
           IN  5 * Abs(conv.ret.converted_analysis.totaal_woorden - target_woorden)
                 <= target_woorden

\* ---- C27
\* C27: AVIConverter.convert returns success = True only if
\* _bepaal_avi_niveau classifies the bilt of the converted text into
\* target_niveau, and REFConverter.convert returns success = True only if
\* the niveau of the converted text is target_niveau.
C27_ValidationAgrees ==
    (conv # NotRun /\ conv.pc = "returned" /\ conv.ret.success) =>
        /\ conv.ret.converted_analysis # None
        /\ IF conv.kind = "AVIConverter"
           THEN _bepaal_avi_niveau(conv.ret.converted_analysis.bilt)
                  = conv.target_niveau
           ELSE conv.ret.converted_analysis.niveau = conv.target_niveau

\* ---- C28
\* The direction get_direction names, in the words of the other two places.
DirectionOf(d) ==
    IF d = "down" THEN "simplify" ELSE IF d = "up" THEN "enrich" ELSE "same"

\* C28: for every pair of current and target AVI band, equal bands and
\* unknown names (index 5) included, get_direction, AVIConverter.convert and
\* get_avi_suggesties classify the pair as the same one of simplify, enrich
\* and same.
C28_DirectionsAgree ==
    call.kind = "direction" =>
        /\ DirectionOf(call.ret.get_direction) = call.ret.convert
        /\ call.ret.convert = call.ret.get_avi_suggesties

\* ------------------------------------------------ beoordeel_mc on its own
\* The 'correct' keys of the questions handed to beoordeel_mc: a capital, a
\* small letter, none.
GradedKeys == {Str(<<"B">>), Str(<<"a">>), Absent}

\* The answers of an answer map: a capital, a small letter, another letter.
Answers == {<<"B">>, <<"b">>, <<"A">>}

\* The answer maps: an answer for some of the question numbers from 0, and
\* for one number past the last question.
AnswerMaps ==
    UNION {[given -> Answers] : given \in SUBSET (0..MaxVragen)}

InitBeoordeel ==
    /\ woordenlijst = {}
    /\ tekst = <<>>
    /\ chunks = 0
    /\ scorer = NotRun
    /\ result = NotRun
    /\ suggesties = NotRun
    /\ log = <<>>
    /\ threads = <<>>
    /\ conv = NotRun
    /\ sessie = SessionStart
    /\ \E mc_vragen \in VragenUpTo(MaxVragen, GradedKeys), antwoorden \in AnswerMaps :
          call = Pending("beoordeel_mc",
                         [mc_vragen |-> mc_vragen, antwoorden |-> antwoorden])

BeoordeelMcCall ==
    /\ call.kind = "pending"
    /\ call.fn = "beoordeel_mc"
    /\ call' = [kind |-> "beoordeel_mc", arg |-> call.arg,
                ret |-> beoordeel_mc(call.arg.mc_vragen, call.arg.antwoorden)]
    /\ UNCHANGED <<sessie, conv, threads, woordenlijst, tekst, chunks, scorer, result, suggesties, log>>

NextBeoordeel == BeoordeelMcCall

\* beoordeel_mc applied once to a list of questions and an answer map.
SpecBeoordeel == InitBeoordeel /\ [][NextBeoordeel]_vars

\* ---- C29
\* Question i (from 0) was given an answer that is its correct key, letter
\* case aside.
AnsweredCorrectly(mc_vragen, antwoorden, i) ==
    /\ i \in DOMAIN antwoorden
    /\ mc_vragen[i + 1].correct # Absent
    /\ Upper(antwoorden[i]) = Upper(mc_vragen[i + 1].correct.s)

\* C29: for any list of questions and any answer map, beoordeel_mc returns a
\* score that is the number of questions whose chosen answer equals the
\* question's correct key case-insensitively, 0 <= score <= max_score = the
\* number of questions, percentage 0 when there are no questions, and a
\* question for which no answer was given is never counted as correct.
C29_BeoordeelMc ==
    call.kind = "beoordeel_mc" =>
        LET mc_vragen == call.arg.mc_vragen
            antwoorden == call.arg.antwoorden
            ret == call.ret
        IN  /\ ret.kind = "mc_resultaat"
            /\ ret.max_score = Len(mc_vragen)
            /\ ret.score \in 0..ret.max_score
            /\ mc_vragen = <<>> => ret.percentage = 0
            /\ Len(ret.resultaten) = Len(mc_vragen)
            /\ \A i \in 0..(Len(mc_vragen) - 1) :
                  i \notin DOMAIN antwoorden => ~ret.resultaten[i + 1].is_correct
            /\ ret.score
                 = Cardinality({i \in 0..(Len(mc_vragen) - 1) :
                                   AnsweredCorrectly(mc_vragen, antwoorden, i)})

\* ---- C30
\* C30: every marker listed in DISCOURSE_MARKERS is matched by a single token
\* of tokenize: a text that is the marker has the marker as its one token,
\* and the marker loop counts each category that lists it.
C30_MarkersAreTokens ==
    call.kind = "tokenize" =>
        /\ call.ret.tokens = <<call.arg>>
        /\ \A m \in 1..Len(DISCOURSE_MARKERS) :
              call.arg \in DISCOURSE_MARKERS[m].markers
                => DISCOURSE_MARKERS[m].mtype \in call.ret.marker_types

====
